---------------------------- MODULE Spec2Model ----------------------------
(***************************************************************************)
(* secure_packager: envelope encryption of a directory (cmd/packager),     *)
(* licence tokens (cmd/issue-token) and the gated decryption of an archive *)
(* (cmd/unpack, SecurePackager.DecryptZip).                                *)
(*                                                                         *)
(* Abstractions.  Cryptography is ideal: a Fernet ciphertext opens only    *)
(* under the key that made it and only when unaltered, an OAEP blob opens  *)
(* only under the private key matching the public key that made it, a PSS  *)
(* signature verifies only under the signer's public key and only over the *)
(* payload that was signed.  A file name is the sequence of its            *)
(* dot-separated parts, a path is a sequence of names, a colon-separated   *)
(* string is the sequence of its fields.  Time is counted in hours.  The   *)
(* file tree holds no symbolic links.                                      *)
(***************************************************************************)
EXTENDS Integers, Sequences, FiniteSets, TLC

(***************************************************************************)
(* Bounds of the model.                                                    *)
(***************************************************************************)
MaxSegs == 3        \* longest archive entry name, in path segments
MaxEntries == 2     \* entries read from an archive by one extraction

(***************************************************************************)
(* File names and paths.                                                   *)
(***************************************************************************)
DotDot == <<"..">>
Dot == <<".">>

\* strings.HasSuffix(name, ".enc")
HasSuffixEnc(name) == Len(name) >= 2 /\ name[Len(name)] = "enc"

\* strings.TrimSuffix(name, ".enc")
TrimSuffixEnc(name) ==
    IF HasSuffixEnc(name) THEN SubSeq(name, 1, Len(name) - 1) ELSE name

\* e.Name() + ".enc"
AddSuffixEnc(name) == Append(name, "enc")

\* path/filepath.Clean on the segments of a path: "." is dropped, ".." removes
\* the segment before it, is dropped at the root and is kept at the head of a
\* relative path.
RECURSIVE CleanSegs(_, _, _)
CleanSegs(abs, segs, out) ==
    IF segs = <<>> THEN out
    ELSE LET s == Head(segs)
             rest == Tail(segs)
         IN  IF s = Dot THEN CleanSegs(abs, rest, out)
             ELSE IF s = DotDot
                  THEN IF out # <<>> /\ out[Len(out)] # DotDot
                       THEN CleanSegs(abs, rest, SubSeq(out, 1, Len(out) - 1))
                       ELSE IF abs THEN CleanSegs(abs, rest, out)
                            ELSE CleanSegs(abs, rest, Append(out, DotDot))
                  ELSE CleanSegs(abs, rest, Append(out, s))

Clean(p) == [abs |-> p.abs, segs |-> CleanSegs(p.abs, p.segs, <<>>)]

JoinUnclean(dest, name) == [abs |-> dest.abs, segs |-> dest.segs \o name.segs]

\* filepath.Join(dest, name): the elements are joined with a separator and the
\* result is cleaned, so a leading separator of name is lost.
Join(dest, name) == Clean([abs |-> dest.abs, segs |-> dest.segs \o name.segs])

\* filepath.Dir of a cleaned path with at least one segment
Dir(p) == [abs |-> p.abs, segs |-> SubSeq(p.segs, 1, Len(p.segs) - 1)]


(***************************************************************************)
(* The file system: a function from locations to what is stored there.  A  *)
(* location is the sequence of names from the root; the process runs in    *)
(* Cwd.  The directories down to Cwd exist.                                *)
(***************************************************************************)
VARIABLES
    fs,         \* location -> [kind |-> "dir"] or a file's content
    dest,       \* unzip's dest / main's *workDir, as given (a path)
    zi,         \* unzip: number of entries of r.File handled so far
    zf,         \* unzip: the entry f handled last
    unzipErr    \* unzip: the error returned ("" while there is none)

Cwd == << <<"home">> >>

DirEntry == [kind |-> "dir"]

\* The kernel's resolution of a path (no symbolic links): "." stays, ".."
\* moves to the parent and stays at the root.
RECURSIVE Walk(_, _)
Walk(loc, segs) ==
    IF segs = <<>> THEN loc
    ELSE LET s == Head(segs)
         IN  IF s = Dot THEN Walk(loc, Tail(segs))
             ELSE IF s = DotDot
                  THEN Walk(IF loc = <<>> THEN loc
                            ELSE SubSeq(loc, 1, Len(loc) - 1), Tail(segs))
                  ELSE Walk(Append(loc, s), Tail(segs))

Resolve(p) == Walk(IF p.abs THEN <<>> ELSE Cwd, p.segs)

IsPrefix(a, b) == Len(a) <= Len(b) /\ SubSeq(b, 1, Len(a)) = a

Exists(f, loc) == loc \in DOMAIN f \/ IsPrefix(loc, Cwd)

IsDirAt(f, loc) ==
    IsPrefix(loc, Cwd) \/ (loc \in DOMAIN f /\ f[loc].kind = "dir")

IsFileAt(f, loc) == Exists(f, loc) /\ ~IsDirAt(f, loc)

Put(f, loc, c) == [x \in DOMAIN f \cup {loc} |-> IF x = loc THEN c ELSE f[x]]

Remove(f, locs) == [x \in DOMAIN f \ locs |-> f[x]]

Prefixes(loc) == {SubSeq(loc, 1, n) : n \in 0..Len(loc)}

\* os.MkdirAll(path): fails when a component of path is a file, and otherwise
\* creates every missing directory down to path.
MkdirAllOk(f, loc) == \A q \in Prefixes(loc) : ~IsFileAt(f, q)

MkdirAll(f, loc) ==
    [x \in DOMAIN f \cup {q \in Prefixes(loc) : ~Exists(f, q)} |->
        IF x \in DOMAIN f THEN f[x] ELSE DirEntry]

\* os.OpenFile(path, O_WRONLY|O_CREATE|O_TRUNC) followed by io.Copy and Close;
\* os.WriteFile does the same.  It fails on a directory.
WriteFileOk(f, loc) ==
    /\ ~IsDirAt(f, loc)
    /\ loc # <<>>
    /\ IsDirAt(f, SubSeq(loc, 1, Len(loc) - 1))

\* The entries of a directory, as os.ReadDir lists them (names only).
ReadDir(f, dir) ==
    {loc[Len(loc)] : loc \in {x \in DOMAIN f : Len(x) = Len(dir) + 1 /\ IsPrefix(dir, x)}}

(***************************************************************************)
(* unzip (cmd/unpack/main.go and SecurePackager.unzip are the same code).  *)
(***************************************************************************)
HasPrefixDestNoSeparator(fpath, d) ==
    LET cd == Clean(d)
    IN  /\ fpath.abs = cd.abs
        /\ Len(fpath.segs) >= Len(cd.segs)
        /\ SubSeq(fpath.segs, 1, Len(cd.segs)) = cd.segs

\* strings.HasPrefix(fpath, filepath.Clean(dest)+string(os.PathSeparator)).
\* No segment holds a separator, so the string test is a test on segments;
\* "./" and "//" (a dest that cleans to "." or "/") prefix no cleaned path.
HasPrefixDest(fpath, d) ==
    LET cd == Clean(d)
    IN  /\ cd.segs # <<>>
        /\ fpath.abs = cd.abs
        /\ Len(fpath.segs) > Len(cd.segs)
        /\ SubSeq(fpath.segs, 1, Len(cd.segs)) = cd.segs

\* One iteration of the loop over r.File, lines 53-83: the file system after
\* it and the error it returns.
ExtractEntry(f, d, e) ==
    LET fpath == Join(d, e.name)
        loc == Resolve(fpath)
    IN  IF ~HasPrefixDest(fpath, d)
        THEN [fs |-> f, err |-> "illegal file path"]
        ELSE IF e.isDir
        THEN IF MkdirAllOk(f, loc)
             THEN [fs |-> MkdirAll(f, loc), err |-> ""]
             ELSE [fs |-> f, err |-> "mkdir"]
        ELSE LET parent == Resolve(Dir(fpath))
             IN  IF ~MkdirAllOk(f, parent)
                 THEN [fs |-> f, err |-> "mkdir"]
                 ELSE LET g == MkdirAll(f, parent)
                      IN  IF WriteFileOk(g, loc)
                          THEN [fs |-> Put(g, loc, e.data), err |-> ""]
                          ELSE [fs |-> g, err |-> "open"]


(***************************************************************************)
(* Extraction of an arbitrary archive: every iteration of unzip's loop     *)
(* meets an arbitrary next entry.                                          *)
(***************************************************************************)
Plain(n) == [kind |-> "plain", id |-> n]

\* Segments an entry name is made of.
Segs == {<<"a">>, DotDot, Dot}

RECURSIVE SeqsUpTo(_, _)
SeqsUpTo(S, n) ==
    IF n = 0 THEN {<<>>}
    ELSE LET shorter == SeqsUpTo(S, n - 1)
         IN  shorter \cup {Append(q, x) : q \in shorter, x \in S}

\* The names an archive entry may carry: "a/../b", "/a", "../../a", ...
ZipNames == [abs : BOOLEAN, segs : SeqsUpTo(Segs, MaxSegs)]

ZipEntries == [name : ZipNames, isDir : BOOLEAN, data : {Plain(1)}]

\* The working directories: the default "./_unpack" and the image's "/work".
WorkDirDefault == [abs |-> FALSE, segs |-> <<Dot, <<"_unpack">>>>]
WorkDirVolume == [abs |-> TRUE, segs |-> << <<"work">> >>]
UnzipDests == {WorkDirDefault, WorkDirVolume}

\* Files that exist outside the working directory before extraction.
Outside == [kind |-> "plain", id |-> 0]
DecoyFs ==
    LET locs == {<< <<"a">> >>, Cwd \o << <<"a">> >>}
    IN  [x \in locs |-> Outside]

NoEntry == [name |-> [abs |-> FALSE, segs |-> <<>>], isDir |-> FALSE, data |-> Outside]

(***************************************************************************)
(* Keys, PEM files and paths of the licence tools.                         *)
(***************************************************************************)
MaxDay == 8         \* dates run from day 0 to day MaxDay

VendorKeys == {"vendor", "forger"}

PemPublic(k) == [kind |-> "pem", type |-> "public", alg |-> "rsa", key |-> k]
PemPrivate(k) == [kind |-> "pem", type |-> "private", alg |-> "rsa", key |-> k]
PemPublicEC == [kind |-> "pem", type |-> "public", alg |-> "ec", key |-> "ec"]
Junk == [kind |-> "junk"]

Rel(segs) == [abs |-> FALSE, segs |-> segs]
NoPath == Rel(<<>>)             \* the empty string given for a path

KeysDir == << <<"keys">> >>
VendorPubFile == Rel(KeysDir \o << <<"vendor_public", "pem">> >>)
TokenFile == Rel(KeysDir \o << <<"token", "txt">> >>)
PrivFileOf(k) == Rel(KeysDir \o << <<k, "pem">> >>)

\* os.ReadFile(path)
ReadFileOk(f, path) == IsFileAt(f, Resolve(path))
ReadFile(f, path) == f[Resolve(path)]

\* readRSAPrivateKey: the key of a PEM file holding an RSA private key.
ReadRSAPrivateKeyOk(f, path) ==
    /\ ReadFileOk(f, path)
    /\ ReadFile(f, path).kind = "pem"
    /\ ReadFile(f, path).type = "private"
    /\ ReadFile(f, path).alg = "rsa"

(***************************************************************************)
(* Licence tokens.  The text of a token is the sequence of its             *)
(* colon-separated fields; a field is a date, a text or the base64 of a    *)
(* signature.                                                              *)
(***************************************************************************)
Date(d) == [t |-> "date", day |-> d]
Text(x) == [t |-> "text", s |-> x]
Sig(k, payload) == [t |-> "sig", signer |-> k, payload |-> payload]
SigJunk == [t |-> "sigjunk"]    \* base64 of bytes that are no signature

Placeholder == Text("NOFERNET")

\* rsa.SignPSS / rsa.VerifyPSS over sha256 of the payload
SignPSS(priv, payload) == Sig(priv, payload)
VerifyPSSLoose(pub, payload, sig) == sig.t = "sig" /\ sig.signer = pub
VerifyPSS(pub, payload, sig) ==
    sig.t = "sig" /\ sig.signer = pub /\ sig.payload = payload

\* issue-token main, lines 49-79, given the key read from -priv: the file
\* written to -out, or nothing when the arguments are refused.
IssueTokenOk(expiry, company, email) ==
    /\ expiry # <<>> /\ company # <<>> /\ email # <<>>
    /\ Len(expiry) = 1 /\ expiry[1].t = "date"

IssueToken(priv, expiry, company, email) ==
    LET payload == expiry \o company \o email \o <<Placeholder>>
        sig == SignPSS(priv, payload)
    IN  [kind |-> "token", b64 |-> TRUE, fields |-> payload \o <<sig>>]

\* strings.SplitN(decoded, ":", 5): at most five parts, the fifth holding all
\* that follows the fourth colon.
SplitN5(fields) ==
    [n |-> IF Len(fields) <= 5 THEN Len(fields) ELSE 5,
     parts |-> SubSeq(fields, 1, 4),
     last |-> SubSeq(fields, 5, Len(fields))]

\* base64.URLEncoding.DecodeString(sigB64): a colon is no base64 character.
SigB64Ok(last) == Len(last) = 1 /\ last[1].t \in {"sig", "sigjunk"}

HoursPerDay == 24
WarnDays == 7
BlockDays == 1

\* time.Parse("2006-01-02", s), in hours
ParseDateOk(x) == x.t = "date"
ParseDate(x) == x.day * HoursPerDay

\* lines 269-274: the reference time, FAKE_NOW replacing it when it parses.
ReferenceTimeImplicit(clock, env) == IF ParseDateOk(env) THEN ParseDate(env) ELSE 0
ReferenceTime(clock, env) == IF ParseDateOk(env) THEN ParseDate(env) ELSE clock

\* line 275: now.After(expiry)
Expired(nowH, expiryH) == nowH > expiryH
\* line 283: remaining <= 7, with remaining = expiry.Sub(now).Hours() / 24
WarnStrict(remainingH) == remainingH < WarnDays * HoursPerDay
Warn(remainingH) == remainingH <= WarnDays * HoursPerDay
\* line 289: remaining <= 1
BlockedStrict(remainingH) == remainingH < BlockDays * HoursPerDay
Blocked(remainingH) == remainingH <= BlockDays * HoursPerDay

LicenseResult(err, out, info) == [err |-> err, out |-> out, info |-> info]
NoInfo == <<>>

\* cmd/unpack verifyAndEnforceLicense, lines 214-293.  out lists what is
\* printed, info the company, email and expiry displayed.
VerifyAndEnforceLicense(f, vendorPubPath, tokenPath, clock, env) ==
    IF ~ReadFileOk(f, vendorPubPath)
    THEN LicenseResult("error reading vendor public key", <<>>, NoInfo)
    ELSE LET pem == ReadFile(f, vendorPubPath) IN
    IF pem.kind # "pem"
    THEN LicenseResult("invalid vendor public key PEM", <<>>, NoInfo)
    ELSE IF pem.type # "public"
    THEN LicenseResult("error parsing vendor public key", <<>>, NoInfo)
    ELSE IF pem.alg # "rsa"
    THEN LicenseResult("vendor public key is not RSA", <<>>, NoInfo)
    ELSE IF ~ReadFileOk(f, tokenPath)
    THEN LicenseResult("error reading license token", <<>>, NoInfo)
    ELSE LET tok == ReadFile(f, tokenPath) IN
    IF tok.kind # "token" \/ ~tok.b64
    THEN LicenseResult("invalid token b64", <<>>, NoInfo)
    ELSE LET sp == SplitN5(tok.fields) IN
    IF sp.n # 5
    THEN LicenseResult("invalid token format", <<>>, NoInfo)
    ELSE IF ~SigB64Ok(sp.last)
    THEN LicenseResult("invalid signature b64", <<>>, NoInfo)
    ELSE IF ~VerifyPSS(pem.key, sp.parts, sp.last[1])
    THEN LicenseResult("token signature invalid", <<>>, NoInfo)
    ELSE IF ~ParseDateOk(sp.parts[1])
    THEN LicenseResult("invalid expiry date", <<>>, NoInfo)
    ELSE LET expiry == ParseDate(sp.parts[1])
             info == <<sp.parts[2], sp.parts[3], sp.parts[1]>>
             nowH == ReferenceTime(clock, env)
             remaining == expiry - nowH
         IN
    IF Expired(nowH, expiry)
    THEN LicenseResult("Token expired", <<"License Information">>, info)
    ELSE LET verdict == IF remaining < 0 THEN "exit"
                        ELSE IF Warn(remaining) THEN "WARNING" ELSE "valid"
         IN
    IF verdict = "exit"
    THEN LicenseResult("Access denied", <<"License Information", "expired">>, info)
    ELSE IF Blocked(remaining)
    THEN LicenseResult("Model access blocked", <<"License Information", verdict>>, info)
    ELSE LicenseResult("", <<"License Information", verdict>>, info)


(***************************************************************************)
(* Issuing, altering and verifying a token.                                *)
(***************************************************************************)
VARIABLES
    clock,      \* time.Now() when the licence is verified, in hours
    env,        \* the value of FAKE_NOW
    licRes,     \* what verifyAndEnforceLicense returned and printed
    issued,     \* the token as issue-token wrote it
    altered,    \* what was done to the token file since
    pkPc,       \* packager: where main is
    pkArgs,     \* packager: the flags -in -out -pub -zip -cleanup -license -vendor-pub
    customerPub, \* packager: the recipient public key read from -pub
    fernetKey,  \* packager: the Fernet key generated
    pkEntries,  \* packager: the entries of inputDir still to encrypt
    pkErr,      \* packager: the diagnostic printed before os.Exit(1)
    entropy,    \* number of Fernet keys drawn from crypto/rand so far
    input0      \* the files of the input directory when the packager started

VARIABLES
    upPc,           \* where the unpacker is: "idle", "begin", "unzip", "gate",
                    \* "wrapped", "priv", "unwrap", "decrypt", "exit0", "exit1", "panic"
    upArgs,         \* mode ("cmd" or "lib") and the paths given to it
    upZip,          \* entries of the archive not yet extracted
    requireLicense, \* main's requireLicense
    vendorPubPath,  \* main's vendorPubPath
    wrappedKey,     \* content of wrapped_key.bin as read
    privKey,        \* the recipient private key as loaded
    upKey,          \* the unwrapped Fernet key
    upEntries,      \* entries of the working directory not yet visited
    upErr,          \* the diagnostic of a failed run
    upLog,          \* the steps taken, in order
    upWritten       \* names of the files written to the output directory

VARIABLE
    parked          \* a second unpacker, not running at the moment: its upPc,
                    \* upArgs, ... as a record, or Nothing when there is none;
                    \* in SpecFakeNow, the inputs and the results of the pass
                    \* made with FAKE_NOW

licVars == <<clock, env, licRes, issued, altered>>
unpackVars == <<upPc, upArgs, upZip, requireLicense, vendorPubPath, wrappedKey, privKey,
                upKey, upEntries, upErr, upLog, upWritten>>
unzipVars == <<dest, zi, zf, unzipErr>>
packVars == <<pkPc, pkArgs, customerPub, fernetKey, pkEntries, pkErr, entropy, input0>>
vars == <<fs, dest, zi, zf, unzipErr, clock, env, licRes, issued, altered,
          pkPc, pkArgs, customerPub, fernetKey, pkEntries, pkErr, entropy, input0,
          upPc, upArgs, upZip, requireLicense, vendorPubPath, wrappedKey, privKey,
          upKey, upEntries, upErr, upLog, upWritten, parked>>

Days == 0..MaxDay
DayOffsets == {0, 1, 23}
Clocks == {d * HoursPerDay + o : d \in Days, o \in DayOffsets}
Unset == [t |-> "unset"]
Envs == {Unset, Text("tomorrow")} \cup {Date(d) : d \in Days}

NotRun == LicenseResult("not run", <<>>, NoInfo)
NoToken == [kind |-> "none"]

Expiries == {<<Date(d)>> : d \in Days} \cup {<<Text("soon")>>}
Companies == {<<Text("Acme")>>, <<Text("A"), Text("B")>>}
Emails == {<<Text("a@acme")>>}

VendorPubContents == {PemPublic("vendor"), PemPublicEC, PemPrivate("vendor"), Junk}

KeyFiles ==
    LET base == MkdirAll(<<>>, Resolve(Rel(KeysDir)))
    IN  Put(Put(base, Resolve(PrivFileOf("vendor")), PemPrivate("vendor")),
            Resolve(PrivFileOf("forger")), PemPrivate("forger"))

\* What the steps of one tool leave alone.
UnzipFrame == UNCHANGED <<licVars, packVars, unpackVars, parked>>
LicenseFrame == UNCHANGED <<unzipVars, packVars, unpackVars, parked>>
PackFrame == UNCHANGED <<unzipVars, licVars, unpackVars, parked>>
UnpackFrame == UNCHANGED <<unzipVars, packVars, clock, env, issued, altered, parked>>

Nothing == [kind |-> "none"]

OneProcess == parked = Nothing

UnpackIdle ==
    /\ upPc = "idle"
    /\ upArgs = <<>>
    /\ upZip = <<>>
    /\ requireLicense = FALSE
    /\ vendorPubPath = NoPath
    /\ wrappedKey = Nothing
    /\ privKey = ""
    /\ upKey = 0
    /\ upEntries = <<>>
    /\ upErr = ""
    /\ upLog = <<>>
    /\ upWritten = {}

PackIdle ==
    /\ pkPc = "idle"
    /\ pkArgs = <<>>
    /\ customerPub = ""
    /\ fernetKey = 0
    /\ pkEntries = <<>>
    /\ pkErr = ""
    /\ entropy = 0
    /\ input0 = <<>>

LicenseIdle ==
    /\ clock = 0
    /\ env = Unset
    /\ licRes = NotRun
    /\ issued = NoToken
    /\ altered = "none"

UnzipIdle ==
    /\ dest = WorkDirDefault
    /\ zi = 0
    /\ zf = NoEntry
    /\ unzipErr = ""

(***************************************************************************)
(* Directory listings in os.ReadDir's order (sorted by file name).         *)
(***************************************************************************)
\* The parts file names are made of, in byte order.
PartOrder == <<"", "a", "b", "bin", "c", "customer_public", "d", "enc",
               "encrypted_files", "json", "manifest", "old", "pem", "token",
               "txt", "vendor_public", "wrapped_key", "zip">>

PartRank(x) == CHOOSE i \in 1..Len(PartOrder) : PartOrder[i] = x

\* m sorts before n: names compare part by part, "." sorting below any letter.
RECURSIVE NameLess(_, _)
NameLess(m, n) ==
    IF m = <<>> THEN n # <<>>
    ELSE IF n = <<>> THEN FALSE
    ELSE IF Head(m) = Head(n) THEN NameLess(Tail(m), Tail(n))
    ELSE PartRank(Head(m)) < PartRank(Head(n))

RECURSIVE SortNames(_)
SortNames(S) ==
    IF S = {} THEN <<>>
    ELSE LET least == CHOOSE m \in S : \A n \in S \ {m} : NameLess(m, n)
         IN  <<least>> \o SortNames(S \ {least})

FileIn(dir, name) == Join(dir, Rel(<<name>>))

\* The entries e of os.ReadDir(dir) with !e.IsDir(), in order.
RegularFiles(f, dir) ==
    SortNames({n \in ReadDir(f, Resolve(dir)) : ~IsDirAt(f, Resolve(FileIn(dir, n)))})

(***************************************************************************)
(* Fernet and RSA-OAEP.                                                    *)
(***************************************************************************)
\* fernet.EncryptAndSign(data, key)
EncryptAndSign(data, k) == [kind |-> "fernet", key |-> k, pt |-> data, intact |-> TRUE]

\* fernet.VerifyAndDecrypt(data, 0, {k}): nil unless data is an unaltered token
\* made with k.
DecryptsAnyKey(data, k) == data.kind = "fernet"
Decrypts(data, k) == data.kind = "fernet" /\ data.key = k /\ data.intact

\* key.Encode(): the base64 text of the key
EncodeKey(k) == [kind |-> "keytext", key |-> k]

\* wrapFernetKey: rsa.EncryptOAEP(sha256, pub, key.Encode(), "secure_packager")
Label == "secure_packager"
WrapFernetKeyInClear(pub, k) == EncodeKey(k)
WrapFernetKey(pub, k) ==
    [kind |-> "oaep", pub |-> pub, label |-> Label, msg |-> EncodeKey(k)]

\* rsa.DecryptOAEP(sha256, priv, wrapped, "secure_packager") succeeds
DecryptOAEPOkAnyKey(priv, wrapped) == wrapped.kind = "oaep" /\ wrapped.label = Label
DecryptOAEPOk(priv, wrapped) ==
    wrapped.kind = "oaep" /\ wrapped.pub = priv /\ wrapped.label = Label

\* readRSAPublicKey
ReadRSAPublicKeyOk(f, path) ==
    /\ ReadFileOk(f, path)
    /\ ReadFile(f, path).kind = "pem"
    /\ ReadFile(f, path).type = "public"
    /\ ReadFile(f, path).alg = "rsa"

(***************************************************************************)
(* The manifest: its text is a sequence of tokens, so that a search for a  *)
(* substring is a search for a run of tokens.                              *)
(***************************************************************************)
\* strings.Contains(s, sub)
Contains(text, sub) ==
    \E i \in 0..(Len(text) - Len(sub)) : SubSeq(text, i + 1, i + Len(sub)) = sub

LicenseRequiredTrue == <<"\"license_required\":", " ", "true">>
VendorPublicPem == <<"vendor_public.pem">>

\* packager main, line 230
PackedManifest ==
    [kind |-> "manifest",
     text |-> <<"{">> \o LicenseRequiredTrue \o <<",", "\"vendor_public_key\":", " ", "\"">>
              \o VendorPublicPem \o <<"\"", "}">>]

WrappedKeyName == <<"wrapped_key", "bin">>
ManifestName == <<"manifest", "json">>
VendorPemName == <<"vendor_public", "pem">>
ZipName == <<"encrypted_files", "zip">>

\* The archive file while zipOutputs is still writing it.
PartialZip == [kind |-> "zip", entries |-> <<>>, partial |-> TRUE]

ZipEntry(name, data) == [name |-> Rel(<<name>>), isDir |-> FALSE, data |-> data]

\* zipOutputs(srcDir, zipPath), lines 136-173: the archive is created, then the
\* directory is listed and every regular file in it is added.
RECURSIVE AddFiles(_, _, _)
AddFiles(f, srcDir, names) ==
    IF names = <<>> THEN <<>>
    ELSE <<ZipEntry(Head(names), ReadFile(f, FileIn(srcDir, Head(names))))>>
         \o AddFiles(f, srcDir, Tail(names))

ZipOutputsListing(f, srcDir) == RegularFiles(f, srcDir)

ZipOutputs(f, srcDir, zipPath) ==
    LET created == Put(f, Resolve(zipPath), PartialZip)
        names == ZipOutputsListing(created, srcDir)
    IN  Put(f, Resolve(zipPath),
            [kind |-> "zip", entries |-> AddFiles(created, srcDir, names), partial |-> FALSE])

\* The files the cleanup removes, lines 257-273.
IsGenerated(name) ==
    \/ HasSuffixEnc(name)
    \/ name \in {WrappedKeyName, ManifestName, VendorPemName}

Cleanup(f, outDir) ==
    LET names == {n \in ReadDir(f, Resolve(outDir)) :
                     /\ ~IsDirAt(f, Resolve(FileIn(outDir, n)))
                     /\ n # ZipName
                     /\ IsGenerated(n)}
    IN  Remove(f, {Resolve(FileIn(outDir, n)) : n \in names})

(***************************************************************************)
(* Specification SpecUnzip: extraction of an arbitrary archive.             *)
(***************************************************************************)
\* main, line 145: the working directory is created before unzip is called.
UnzipInit ==
    /\ dest \in UnzipDests
    /\ fs = MkdirAll(DecoyFs, Resolve(dest))
    /\ zi = 0
    /\ zf = NoEntry
    /\ unzipErr = ""
    /\ LicenseIdle
    /\ PackIdle
    /\ UnpackIdle
    /\ OneProcess

\* unzip, lines 53-83: one iteration, on the entry f.
UnzipEntry(f) ==
    /\ unzipErr = ""
    /\ zi < MaxEntries
    /\ LET r == ExtractEntry(fs, dest, f)
       IN  /\ fs' = r.fs
           /\ unzipErr' = r.err
    /\ zf' = f
    /\ zi' = zi + 1
    /\ UNCHANGED dest
    /\ UnzipFrame

UnzipNext == \E f \in ZipEntries : UnzipEntry(f)

SpecUnzip == UnzipInit /\ [][UnzipNext]_vars


(***************************************************************************)
(* Specification SpecLicense: a token is issued, possibly altered, and     *)
(* verified.                                                               *)
(***************************************************************************)
LicenseInit ==
    /\ clock \in Clocks
    /\ env \in Envs
    /\ licRes = NotRun
    /\ issued = NoToken
    /\ altered = "none"
    /\ \E vp \in VendorPubContents \cup {NoToken} :
          fs = IF vp = NoToken THEN KeyFiles
               ELSE Put(KeyFiles, Resolve(VendorPubFile), vp)
    /\ UnzipIdle
    /\ PackIdle
    /\ UnpackIdle
    /\ OneProcess

\* issue-token -priv keys/<k>.pem -expiry .. -company .. -email .. -out keys/token.txt
IssueTokenRun(key, expiry, company, email) ==
    /\ issued = NoToken
    /\ licRes = NotRun
    /\ IssueTokenOk(expiry, company, email)
    /\ ReadRSAPrivateKeyOk(fs, PrivFileOf(key))
    /\ LET tok == IssueToken(ReadFile(fs, PrivFileOf(key)).key, expiry, company, email)
       IN  /\ fs' = Put(fs, Resolve(TokenFile), tok)
           /\ issued' = tok
    /\ UNCHANGED <<clock, env, licRes, altered>>
    /\ LicenseFrame

\* Another value for a field.
OtherField(x) ==
    IF x.t = "date" THEN Date(IF x.day = MaxDay THEN 0 ELSE x.day + 1)
    ELSE IF x = Text("Evil") THEN Text("Acme") ELSE Text("Evil")

Alterations == {"field1", "field2", "field3", "field4", "drop", "add",
                "sigjunk", "resign", "outer"}

AlteredToken(tok, how) ==
    LET fl == tok.fields
        n == Len(fl)
        at(i) == [tok EXCEPT !.fields = [fl EXCEPT ![i] = OtherField(fl[i])]]
    IN  CASE how = "field1" -> at(1)
          [] how = "field2" -> at(2)
          [] how = "field3" -> at(3)
          [] how = "field4" -> at(4)
          [] how = "drop" -> [tok EXCEPT !.fields = Tail(fl)]
          [] how = "add" -> [tok EXCEPT !.fields = <<fl[1], Text("x")>> \o Tail(fl)]
          [] how = "sigjunk" -> [tok EXCEPT !.fields = [fl EXCEPT ![n] = SigJunk]]
          [] how = "resign" ->
                LET changed == [fl EXCEPT ![1] = OtherField(fl[1])]
                IN  [tok EXCEPT !.fields =
                        [changed EXCEPT ![n] = SignPSS("forger", SubSeq(changed, 1, n - 1))]]
          [] how = "outer" -> [tok EXCEPT !.b64 = FALSE]

\* Somebody edits the token file between issue and use.
AlterToken(how) ==
    /\ issued # NoToken
    /\ altered = "none"
    /\ licRes = NotRun
    /\ fs' = Put(fs, Resolve(TokenFile), AlteredToken(ReadFile(fs, TokenFile), how))
    /\ altered' = how
    /\ UNCHANGED <<clock, env, licRes, issued>>
    /\ LicenseFrame

\* unpack reaches line 179 with -vendor-pub and -license-token given.
VerifyLicense ==
    /\ licRes = NotRun
    /\ licRes' = VerifyAndEnforceLicense(fs, VendorPubFile, TokenFile, clock, env)
    /\ UNCHANGED <<fs, clock, env, issued, altered>>
    /\ LicenseFrame

LicenseNext ==
    \/ \E key \in VendorKeys, e \in Expiries, c \in Companies, m \in Emails :
          IssueTokenRun(key, e, c, m)
    \/ \E how \in Alterations : AlterToken(how)
    \/ VerifyLicense

SpecLicense == LicenseInit /\ [][LicenseNext]_vars

(***************************************************************************)
(* Specification SpecPack: one run of the packager.                        *)
(***************************************************************************)
MaxFiles == 2       \* files in the input directory

Letters == <<"a", "b", "c", "d">>
InputNames == {<<Letters[i]>> : i \in 1..MaxFiles}

InDir == Rel(<< <<"in">> >>)
OutDir == Rel(<< <<"out">> >>)
CustomerPubName == <<"customer_public", "pem">>
StaleEncName == <<"old", "enc">>

\* What an earlier run, under another key, left in the output directory.
StaleEnc == EncryptAndSign(Plain(0), 0)
StaleZip == [kind |-> "zip", entries |-> <<ZipEntry(StaleEncName, StaleEnc)>>, partial |-> FALSE]

PutFile(f, dir, name, c) == Put(MkdirAll(f, Resolve(dir)), Resolve(FileIn(dir, name)), c)

RECURSIVE PutAll(_, _, _)
PutAll(f, dir, names) ==
    IF names = {} THEN f
    ELSE LET n == CHOOSE x \in names : TRUE
         IN  PutAll(PutFile(f, dir, n, Plain(PartRank(n[1]) - 1)), dir, names \ {n})

\* The files of a directory, by name.
FilesOf(f, dir) ==
    LET names == {n \in ReadDir(f, Resolve(dir)) : ~IsDirAt(f, Resolve(FileIn(dir, n)))}
    IN  [n \in names |-> ReadFile(f, FileIn(dir, n))]

AllKeyFiles ==
    Put(Put(Put(KeyFiles, Resolve(VendorPubFile), PemPublic("vendor")),
            Resolve(PrivFileOf("customer")), PemPrivate("customer")),
        Resolve(PrivFileOf("stranger")), PemPrivate("stranger"))

\* The files on disk and the flags of a run, the -zip and -license flags
\* taken from the given sets.
PackSetup(zips, licenses) ==
    \E names \in SUBSET InputNames, out \in {InDir, OutDir},
       pubDir \in {Rel(KeysDir), OutDir}, pubPem \in {PemPublic("customer"), Junk},
       stale \in SUBSET {StaleEncName, ZipName},
       zip \in zips, cleanup \in BOOLEAN, license \in licenses,
       vendorPub \in {NoPath, VendorPubFile} :
       LET f1 == PutAll(MkdirAll(AllKeyFiles, Resolve(InDir)), InDir, names)
           f2 == PutFile(f1, pubDir, CustomerPubName, pubPem)
           f3 == IF StaleEncName \in stale
                 THEN PutFile(f2, OutDir, StaleEncName, StaleEnc) ELSE f2
           f4 == IF ZipName \in stale
                 THEN PutFile(f3, OutDir, ZipName, StaleZip) ELSE f3
       IN  /\ fs = f4
           /\ pkArgs = [in |-> InDir, out |-> out, pub |-> FileIn(pubDir, CustomerPubName),
                        zip |-> zip, cleanup |-> cleanup, license |-> license,
                        vendorPub |-> vendorPub]
           /\ input0 = FilesOf(f4, InDir)

PackReady ==
    /\ pkPc = "start"
    /\ customerPub = ""
    /\ fernetKey = 0
    /\ pkEntries = <<>>
    /\ pkErr = ""
    /\ entropy = 0

PackInit ==
    /\ PackSetup(BOOLEAN, BOOLEAN)
    /\ PackReady
    /\ UnzipIdle
    /\ LicenseIdle
    /\ UnpackIdle
    /\ OneProcess

PackFail(msg) ==
    /\ pkPc' = "exit1"
    /\ pkErr' = msg

\* main, lines 190-205, and encryptFilesWithFernet, lines 96-102: the key is
\* read, the output directory made, a Fernet key generated, inputDir listed.
PackBegin ==
    /\ pkPc = "start"
    /\ IF ~ReadRSAPublicKeyOk(fs, pkArgs.pub)
       THEN /\ PackFail("Failed to read public key")
            /\ UNCHANGED <<fs, customerPub, fernetKey, pkEntries, entropy>>
       ELSE /\ customerPub' = ReadFile(fs, pkArgs.pub).key
            /\ fs' = MkdirAll(fs, Resolve(pkArgs.out))
            /\ entropy' = entropy + 1
            /\ fernetKey' = entropy + 1
            /\ pkEntries' = RegularFiles(fs, pkArgs.in)
            /\ pkPc' = "encrypt"
            /\ UNCHANGED pkErr
    /\ UNCHANGED <<pkArgs, input0>>
    /\ PackFrame

\* encryptFilesWithFernet, lines 103-121: one iteration.
PackEncryptFile ==
    /\ pkPc = "encrypt"
    /\ pkEntries # <<>>
    /\ LET name == Head(pkEntries)
           inPath == FileIn(pkArgs.in, name)
           outPath == FileIn(pkArgs.out, AddSuffixEnc(name))
       IN  IF ~ReadFileOk(fs, inPath) \/ ~WriteFileOk(fs, Resolve(outPath))
           THEN /\ PackFail("Encryption failed")
                /\ UNCHANGED <<fs, pkEntries>>
           ELSE /\ fs' = Put(fs, Resolve(outPath), EncryptAndSign(ReadFile(fs, inPath), fernetKey))
                /\ pkEntries' = Tail(pkEntries)
                /\ UNCHANGED <<pkPc, pkErr>>
    /\ UNCHANGED <<pkArgs, customerPub, fernetKey, entropy, input0>>
    /\ PackFrame

\* main, lines 212-222: the key is wrapped and wrapped_key.bin written.
PackWrapKey ==
    /\ pkPc = "encrypt"
    /\ pkEntries = <<>>
    /\ fs' = Put(fs, Resolve(FileIn(pkArgs.out, WrappedKeyName)),
                 WrapFernetKey(customerPub, fernetKey))
    /\ pkPc' = "license"
    /\ UNCHANGED <<pkArgs, customerPub, fernetKey, pkEntries, pkErr, entropy, input0>>
    /\ PackFrame

\* main, lines 225-246: the manifest and the vendor public key.
PackLicense ==
    /\ pkPc = "license"
    /\ IF ~pkArgs.license
       THEN /\ pkPc' = "zip"
            /\ UNCHANGED <<fs, pkErr>>
       ELSE IF pkArgs.vendorPub = NoPath
       THEN /\ PackFail("-license requires -vendor-pub")
            /\ UNCHANGED fs
       ELSE LET f1 == Put(fs, Resolve(FileIn(pkArgs.out, ManifestName)), PackedManifest)
            IN  IF ~ReadFileOk(f1, pkArgs.vendorPub)
                THEN /\ PackFail("Reading vendor public key failed")
                     /\ fs' = f1
                ELSE /\ fs' = Put(f1, Resolve(FileIn(pkArgs.out, VendorPemName)),
                                  ReadFile(f1, pkArgs.vendorPub))
                     /\ pkPc' = "zip"
                     /\ UNCHANGED pkErr
    /\ UNCHANGED <<pkArgs, customerPub, fernetKey, pkEntries, entropy, input0>>
    /\ PackFrame

\* main, lines 248-254: zipOutputs(*outDir, *outDir/encrypted_files.zip).
PackZip ==
    /\ pkPc = "zip"
    /\ IF pkArgs.zip
       THEN /\ fs' = ZipOutputs(fs, pkArgs.out, FileIn(pkArgs.out, ZipName))
            /\ pkPc' = IF pkArgs.cleanup THEN "cleanup" ELSE "exit0"
       ELSE /\ pkPc' = "exit0"
            /\ UNCHANGED fs
    /\ UNCHANGED <<pkArgs, customerPub, fernetKey, pkEntries, pkErr, entropy, input0>>
    /\ PackFrame

\* main, lines 255-274: the generated files are removed.
PackCleanup ==
    /\ pkPc = "cleanup"
    /\ fs' = Cleanup(fs, pkArgs.out)
    /\ pkPc' = "exit0"
    /\ UNCHANGED <<pkArgs, customerPub, fernetKey, pkEntries, pkErr, entropy, input0>>
    /\ PackFrame

PackNext ==
    \/ PackBegin
    \/ PackEncryptFile
    \/ PackWrapKey
    \/ PackLicense
    \/ PackZip
    \/ PackCleanup

SpecPack == PackInit /\ [][PackNext]_vars

(***************************************************************************)
(* Specification SpecRepack: two packaging operations in a row, by two     *)
(* runs of the packager (mode "cmd") or by two calls of EncryptDirectory   *)
(* on one SecurePackager value (mode "lib"), into two output directories.  *)
(***************************************************************************)
OutDirB == Rel(<< <<"out2">> >>)

RepackInit ==
    /\ \E names \in SUBSET InputNames, mode \in {"cmd", "lib"}, cleanup \in BOOLEAN :
          LET f1 == PutAll(MkdirAll(AllKeyFiles, Resolve(InDir)), InDir, names)
              f2 == PutFile(f1, Rel(KeysDir), CustomerPubName, PemPublic("customer"))
          IN  /\ mode = "lib" => cleanup
              /\ fs = f2
              /\ pkArgs = [in |-> InDir, out |-> OutDir,
                           pub |-> FileIn(Rel(KeysDir), CustomerPubName),
                           zip |-> TRUE, cleanup |-> cleanup, license |-> FALSE,
                           vendorPub |-> NoPath, mode |-> mode]
              /\ input0 = FilesOf(f2, InDir)
    /\ PackReady
    /\ UnzipIdle
    /\ LicenseIdle
    /\ UnpackIdle
    /\ OneProcess

\* The second operation.  A new run of the packager starts from main and
\* generates its key (lines 201-205); EncryptDirectory (part_002, lines
\* 150-160) makes the output directory and encrypts under sp.fernetKey, which
\* NewSecurePackager set (lines 115-131).
Repack ==
    /\ pkPc = "exit0"
    /\ pkArgs.out = OutDir
    /\ pkArgs' = [pkArgs EXCEPT !.out = OutDirB]
    /\ IF pkArgs.mode = "cmd"
       THEN /\ pkPc' = "start"
            /\ UNCHANGED <<fs, pkEntries>>
       ELSE /\ pkPc' = "encrypt"
            /\ fs' = MkdirAll(fs, Resolve(OutDirB))
            /\ pkEntries' = RegularFiles(fs, pkArgs.in)
    /\ UNCHANGED <<customerPub, fernetKey, pkErr, entropy, input0>>
    /\ PackFrame

SpecRepack == RepackInit /\ [][PackNext \/ Repack]_vars

(***************************************************************************)
(* The unpacker: main of cmd/unpack (mode "cmd") and                       *)
(* SecurePackager.DecryptZip (mode "lib").                                 *)
(***************************************************************************)
\* os.RemoveAll(path)
RemoveAll(f, loc) == Remove(f, {x \in DOMAIN f : IsPrefix(loc, x)})

\* DecryptZip, line 196: the working directory lies next to the archive.
LibWorkDir(zipPath) == Join(Dir(zipPath), Rel(<< <<"_unpack">> >>))

\* string(b) of a manifest
TextOf(c) == IF c.kind = "manifest" THEN c.text ELSE <<>>

\* fernet.MustDecodeKeys(raw) returns instead of panicking
DecodeKeysOk(msg) == msg.kind = "keytext"

\* main, lines 156 and 164-166: the vendor key the licence is verified with,
\* the key of the archive only when no path is given.
ResolveVendorPubEmbeddedFirst(given, text, embedded) ==
    IF Contains(text, VendorPublicPem) THEN embedded ELSE given
ResolveVendorPub(given, text, embedded) ==
    IF given = NoPath /\ Contains(text, VendorPublicPem) THEN embedded ELSE given

\* The condition under which the licence is checked: main, line 170, and
\* DecryptZip, line 214.
LicenseNeededManifestOnly(mode, required, tokenPath, pubPath) == required
LicenseNeeded(mode, required, tokenPath, pubPath) ==
    IF mode = "cmd"
    THEN required \/ tokenPath # NoPath \/ pubPath # NoPath
    ELSE required

\* Where the run goes after the licence gate: every failure ends it.
AfterGateContinue(err) == "wrapped"
AfterGate(err) == IF err = "" THEN "wrapped" ELSE "exit1"

\* A failed run: cmd/unpack prints and calls os.Exit(1); DecryptZip returns
\* the error and its deferred os.RemoveAll(workDir) runs.
UnpackEnd(f) == IF upArgs.mode = "lib" THEN RemoveAll(f, Resolve(upArgs.work)) ELSE f

UnpackFail(f, msg) ==
    /\ upPc' = "exit1"
    /\ upErr' = msg
    /\ fs' = UnpackEnd(f)

\* main, lines 145-148, and unzip, lines 47-52: the working directory is made
\* and the archive opened.
UnpackBegin ==
    /\ upPc = "begin"
    /\ IF ~MkdirAllOk(fs, Resolve(upArgs.work))
       THEN /\ upPc' = "exit1"
            /\ upErr' = "Failed to create work dir"
            /\ UNCHANGED <<fs, upZip>>
       ELSE LET f1 == MkdirAll(fs, Resolve(upArgs.work))
            IN  IF ~ReadFileOk(f1, upArgs.zip) \/ ReadFile(f1, upArgs.zip).kind # "zip"
                THEN /\ UnpackFail(f1, "Unzip failed")
                     /\ UNCHANGED upZip
                ELSE /\ fs' = f1
                     /\ upZip' = ReadFile(f1, upArgs.zip).entries
                     /\ upPc' = "unzip"
                     /\ UNCHANGED upErr
    /\ upLog' = Append(upLog, "unzip")
    /\ UNCHANGED <<upArgs, requireLicense, vendorPubPath, wrappedKey, privKey, upKey,
                   upEntries, upWritten, licRes>>
    /\ UnpackFrame

\* unzip, lines 53-83: one iteration.
UnpackUnzipEntry ==
    /\ upPc = "unzip"
    /\ upZip # <<>>
    /\ LET r == ExtractEntry(fs, upArgs.work, Head(upZip))
       IN  IF r.err # ""
           THEN /\ UnpackFail(r.fs, "Unzip failed")
                /\ UNCHANGED upZip
           ELSE /\ fs' = r.fs
                /\ upZip' = Tail(upZip)
                /\ UNCHANGED <<upPc, upErr>>
    /\ UNCHANGED <<upArgs, requireLicense, vendorPubPath, wrappedKey, privKey, upKey,
                   upEntries, upLog, upWritten, licRes>>
    /\ UnpackFrame

\* main, lines 154-167, and checkLicenseRequirements: what the manifest of
\* the extracted archive asks for.
UnpackManifest ==
    /\ upPc = "unzip"
    /\ upZip = <<>>
    /\ LET manifestPath == FileIn(upArgs.work, ManifestName)
           readable == ReadFileOk(fs, manifestPath)
           text == IF readable THEN TextOf(ReadFile(fs, manifestPath)) ELSE <<>>
           embedded == FileIn(upArgs.work, VendorPemName)
       IN  IF upArgs.mode = "lib" /\ Exists(fs, Resolve(manifestPath)) /\ ~readable
           THEN /\ UnpackFail(fs, "license check failed")
                /\ UNCHANGED <<requireLicense, vendorPubPath>>
           ELSE /\ requireLicense' = Contains(text, LicenseRequiredTrue)
                /\ vendorPubPath' =
                      IF upArgs.mode = "cmd"
                      THEN ResolveVendorPub(upArgs.vendorPub, text, embedded)
                      ELSE IF Contains(text, VendorPublicPem) THEN embedded ELSE NoPath
                /\ upPc' = "gate"
                /\ UNCHANGED <<fs, upErr>>
    /\ upLog' = Append(upLog, "manifest")
    /\ UNCHANGED <<upArgs, upZip, wrappedKey, privKey, upKey, upEntries, upWritten, licRes>>
    /\ UnpackFrame

\* main, lines 169-183, and DecryptZip, lines 213-221: the licence gate.
\* SecurePackager.verifyAndEnforceLicense (part_002, lines 621-627) prints
\* its arguments and returns nil.
UnpackLicenseGate ==
    /\ upPc = "gate"
    /\ IF ~LicenseNeeded(upArgs.mode, requireLicense, upArgs.token, vendorPubPath)
       THEN /\ upPc' = "wrapped"
            /\ UNCHANGED <<fs, upErr, licRes, upLog>>
       ELSE IF upArgs.token = NoPath
       THEN /\ UnpackFail(fs, "license required: no token")
            /\ UNCHANGED <<licRes, upLog>>
       ELSE IF upArgs.mode = "cmd" /\ vendorPubPath = NoPath
       THEN /\ UnpackFail(fs, "license required: vendor public key not found")
            /\ UNCHANGED <<licRes, upLog>>
       ELSE LET r == IF upArgs.mode = "cmd"
                     THEN VerifyAndEnforceLicense(fs, vendorPubPath, upArgs.token, clock, env)
                     ELSE LicenseResult("", <<"License verification would be performed here">>,
                                        NoInfo)
            IN  /\ licRes' = r
                /\ upLog' = Append(upLog, "verify")
                /\ upPc' = AfterGate(r.err)
                /\ upErr' = r.err
                /\ fs' = IF AfterGate(r.err) = "exit1" THEN UnpackEnd(fs) ELSE fs
    /\ UNCHANGED <<upArgs, upZip, requireLicense, vendorPubPath, wrappedKey, privKey, upKey,
                   upEntries, upWritten>>
    /\ UnpackFrame

\* main, lines 185-190: wrapped_key.bin is read.
UnpackReadWrapped ==
    /\ upPc = "wrapped"
    /\ LET wrappedPath == FileIn(upArgs.work, WrappedKeyName)
       IN  IF ~ReadFileOk(fs, wrappedPath)
           THEN /\ UnpackFail(fs, "Reading wrapped_key.bin failed")
                /\ UNCHANGED wrappedKey
           ELSE /\ wrappedKey' = ReadFile(fs, wrappedPath)
                /\ upPc' = "priv"
                /\ UNCHANGED <<fs, upErr>>
    /\ upLog' = Append(upLog, "read wrapped key")
    /\ UNCHANGED <<upArgs, upZip, requireLicense, vendorPubPath, privKey, upKey,
                   upEntries, upWritten, licRes>>
    /\ UnpackFrame

\* main, lines 192-196: the recipient private key is loaded.
UnpackReadPriv ==
    /\ upPc = "priv"
    /\ IF ~ReadRSAPrivateKeyOk(fs, upArgs.priv)
       THEN /\ UnpackFail(fs, "Reading private key failed")
            /\ UNCHANGED privKey
       ELSE /\ privKey' = ReadFile(fs, upArgs.priv).key
            /\ upPc' = "unwrap"
            /\ UNCHANGED <<fs, upErr>>
    /\ upLog' = Append(upLog, "load private key")
    /\ UNCHANGED <<upArgs, upZip, requireLicense, vendorPubPath, wrappedKey, upKey,
                   upEntries, upWritten, licRes>>
    /\ UnpackFrame

\* main, lines 198-202, with unwrapFernetKey, and the head of
\* decryptDirWithFernet, lines 102-108: the key is unwrapped, the working
\* directory listed and the output directory made.
UnpackUnwrap ==
    /\ upPc = "unwrap"
    /\ IF ~DecryptOAEPOk(privKey, wrappedKey)
       THEN /\ UnpackFail(fs, "Unwrap failed")
            /\ UNCHANGED <<upKey, upEntries>>
       ELSE IF ~DecodeKeysOk(wrappedKey.msg)
       THEN /\ upPc' = "panic"
            /\ upErr' = "panic"
            /\ fs' = UnpackEnd(fs)
            /\ UNCHANGED <<upKey, upEntries>>
       ELSE IF ~MkdirAllOk(fs, Resolve(upArgs.out))
       THEN /\ UnpackFail(fs, "Decrypt failed")
            /\ upKey' = wrappedKey.msg.key
            /\ UNCHANGED upEntries
       ELSE /\ upKey' = wrappedKey.msg.key
            /\ upEntries' = RegularFiles(fs, upArgs.work)
            /\ fs' = MkdirAll(fs, Resolve(upArgs.out))
            /\ upPc' = "decrypt"
            /\ UNCHANGED upErr
    /\ upLog' = Append(upLog, "unwrap")
    /\ UNCHANGED <<upArgs, upZip, requireLicense, vendorPubPath, wrappedKey, privKey,
                   upWritten, licRes>>
    /\ UnpackFrame

\* decryptDirWithFernet, lines 109-127: one iteration.
UnpackDecryptFile ==
    /\ upPc = "decrypt"
    /\ upEntries # <<>>
    /\ LET name == Head(upEntries)
           inPath == FileIn(upArgs.work, name)
           outName == TrimSuffixEnc(name)
           outPath == FileIn(upArgs.out, outName)
       IN  IF ~HasSuffixEnc(name)
           THEN /\ upEntries' = Tail(upEntries)
                /\ UNCHANGED <<fs, upPc, upErr, upWritten>>
           ELSE IF \/ ~ReadFileOk(fs, inPath)
                   \/ ~Decrypts(ReadFile(fs, inPath), upKey)
                   \/ ~WriteFileOk(fs, Resolve(outPath))
           THEN /\ UnpackFail(fs, "Decrypt failed")
                /\ UNCHANGED <<upEntries, upWritten>>
           ELSE /\ fs' = Put(fs, Resolve(outPath), ReadFile(fs, inPath).pt)
                /\ upWritten' = upWritten \cup {outName}
                /\ upEntries' = Tail(upEntries)
                /\ UNCHANGED <<upPc, upErr>>
    /\ upLog' = Append(upLog, "decrypt")
    /\ UNCHANGED <<upArgs, upZip, requireLicense, vendorPubPath, wrappedKey, privKey, upKey,
                   licRes>>
    /\ UnpackFrame

\* main, line 208, and DecryptZip, line 247: the run ends well.
UnpackFinish ==
    /\ upPc = "decrypt"
    /\ upEntries = <<>>
    /\ upPc' = "exit0"
    /\ fs' = UnpackEnd(fs)
    /\ UNCHANGED <<upArgs, upZip, requireLicense, vendorPubPath, wrappedKey, privKey, upKey,
                   upEntries, upErr, upLog, upWritten, licRes>>
    /\ UnpackFrame

UnpackNext ==
    \/ UnpackBegin
    \/ UnpackUnzipEntry
    \/ UnpackManifest
    \/ UnpackLicenseGate
    \/ UnpackReadWrapped
    \/ UnpackReadPriv
    \/ UnpackUnwrap
    \/ UnpackDecryptFile
    \/ UnpackFinish

(***************************************************************************)
(* Specification SpecUnpack: one run of the unpacker on an archive that    *)
(* anybody may have assembled.                                             *)
(***************************************************************************)
PkgDir == Rel(<< <<"pkg">> >>)
DecryptedDir == Rel(<< <<"decrypted">> >>)

\* An archive holding the given files, in the order zipOutputs adds them.
ArchiveOf(files) ==
    LET names == SortNames(DOMAIN files)
    IN  [kind |-> "zip",
         entries |-> [j \in 1..Len(names) |-> ZipEntry(names[j], files[names[j]])],
         partial |-> FALSE]

LiteralOnlyManifest ==
    [kind |-> "manifest", text |-> <<"{">> \o LicenseRequiredTrue \o <<"}">>]
ReferenceOnlyManifest ==
    [kind |-> "manifest",
     text |-> <<"{", "\"license_required\":", " ", "false", ",", "\"vendor_public_key\":",
                " ", "\"">> \o VendorPublicPem \o <<"\"", "}">>]
\* {"license_required":true}, as a JSON encoder writes it without indentation
CompactManifest ==
    [kind |-> "manifest", text |-> <<"{", "\"license_required\":", "true", "}">>]
Manifests ==
    {Nothing, PackedManifest, LiteralOnlyManifest, ReferenceOnlyManifest, CompactManifest}

EmbeddedKeys == {Nothing, PemPublic("vendor"), PemPublic("forger")}

WrappedKeys ==
    {Nothing, WrapFernetKey("customer", 1), WrapFernetKey("stranger", 1),
     [WrapFernetKey("customer", 1) EXCEPT !.msg = Junk]}

\* Ciphertext of the named files under key 1, those of bad altered in
\* transit.
RECURSIVE Payload(_, _)
Payload(names, bad) ==
    IF names = {} THEN <<>>
    ELSE LET n == CHOOSE x \in names : TRUE
             c == EncryptAndSign(Plain(PartRank(n[1]) - 1), 1)
         IN  Put(Payload(names \ {n}, bad), AddSuffixEnc(n),
                 IF n \in bad THEN [c EXCEPT !.intact = FALSE] ELSE c)

Optional(files, name, c) == IF c = Nothing THEN files ELSE Put(files, name, c)

TokenContents ==
    {Nothing,
     IssueToken("vendor", <<Date(4)>>, <<Text("Acme")>>, <<Text("a@acme")>>),
     IssueToken("forger", <<Date(4)>>, <<Text("Acme")>>, <<Text("a@acme")>>)}

\* Four days, one day and no day before the expiry of the token.
UnpackClocks == {0, 3 * HoursPerDay, 5 * HoursPerDay}

UnpackInit ==
    /\ \E names \in SUBSET InputNames, tampered \in SUBSET InputNames, m \in Manifests,
          vk \in EmbeddedKeys, w \in WrappedKeys, tok \in TokenContents,
          mode \in {"cmd", "lib"}, tokenPath \in {NoPath, TokenFile},
          pubPath \in {NoPath, VendorPubFile},
          privPath \in {PrivFileOf("customer"), VendorPubFile} :
          LET files == Optional(Optional(Optional(Payload(names, tampered),
                          ManifestName, m), VendorPemName, vk), WrappedKeyName, w)
              zipPath == FileIn(PkgDir, ZipName)
              f1 == PutFile(AllKeyFiles, PkgDir, ZipName, ArchiveOf(files))
          IN  /\ tampered \subseteq names
              /\ Cardinality(tampered) <= 1
              /\ fs = Optional(f1, Resolve(TokenFile), tok)
              /\ upArgs = [mode |-> mode, zip |-> zipPath,
                           work |-> IF mode = "lib" THEN LibWorkDir(zipPath)
                                    ELSE WorkDirDefault,
                           out |-> DecryptedDir, priv |-> privPath,
                           token |-> tokenPath, vendorPub |-> pubPath]
    /\ clock \in UnpackClocks
    /\ env = Unset
    /\ licRes = NotRun
    /\ issued = NoToken
    /\ altered = "none"
    /\ upPc = "begin"
    /\ upZip = <<>>
    /\ requireLicense = FALSE
    /\ vendorPubPath = NoPath
    /\ wrappedKey = Nothing
    /\ privKey = ""
    /\ upKey = 0
    /\ upEntries = <<>>
    /\ upErr = ""
    /\ upLog = <<>>
    /\ upWritten = {}
    /\ UnzipIdle
    /\ PackIdle
    /\ OneProcess

SpecUnpack == UnpackInit /\ [][UnpackNext]_vars

(***************************************************************************)
(* Specification SpecRound: the packager runs with -zip and without        *)
(* -license, and the recipient unpacks the archive it leaves.              *)
(***************************************************************************)
RoundInit ==
    /\ PackSetup({TRUE}, {FALSE})
    /\ PackReady
    /\ UnzipIdle
    /\ LicenseIdle
    /\ UnpackIdle
    /\ OneProcess

\* unpack -zip <out>/encrypted_files.zip -priv keys/customer.pem -out decrypted,
\* or DecryptZip with the same arguments.
RoundUnpack(mode) ==
    /\ pkPc = "exit0"
    /\ upPc = "idle"
    /\ LET zipPath == FileIn(pkArgs.out, ZipName)
       IN  upArgs' = [mode |-> mode, zip |-> zipPath,
                      work |-> IF mode = "lib" THEN LibWorkDir(zipPath) ELSE WorkDirDefault,
                      out |-> DecryptedDir, priv |-> PrivFileOf("customer"),
                      token |-> NoPath, vendorPub |-> NoPath]
    /\ upPc' = "begin"
    /\ UNCHANGED <<fs, upZip, requireLicense, vendorPubPath, wrappedKey, privKey, upKey,
                   upEntries, upErr, upLog, upWritten, licRes>>
    /\ UnpackFrame

RoundNext ==
    \/ PackNext
    \/ \E mode \in {"cmd", "lib"} : RoundUnpack(mode)
    \/ UnpackNext

SpecRound == RoundInit /\ [][RoundNext]_vars

(***************************************************************************)
(* Two runs of the unpacker from the same current directory, on two        *)
(* archives and into two output directories.  One process runs at a time;  *)
(* the other is parked.  SpecRerun starts the second when the first has    *)
(* ended; SpecConcurrent lets the scheduler switch between them at any     *)
(* step.                                                                   *)
(***************************************************************************)
Current ==
    [upPc |-> upPc, upArgs |-> upArgs, upZip |-> upZip, requireLicense |-> requireLicense,
     vendorPubPath |-> vendorPubPath, wrappedKey |-> wrappedKey, privKey |-> privKey,
     upKey |-> upKey, upEntries |-> upEntries, upErr |-> upErr, upLog |-> upLog,
     upWritten |-> upWritten, licRes |-> licRes]

\* A process about to enter main (or DecryptZip) with the given arguments.
Started(args) ==
    [upPc |-> "begin", upArgs |-> args, upZip |-> <<>>, requireLicense |-> FALSE,
     vendorPubPath |-> NoPath, wrappedKey |-> Nothing, privKey |-> "",
     upKey |-> 0, upEntries |-> <<>>, upErr |-> "", upLog |-> <<>>,
     upWritten |-> {}, licRes |-> NotRun]

Runs(p) ==
    /\ upPc = p.upPc /\ upArgs = p.upArgs /\ upZip = p.upZip
    /\ requireLicense = p.requireLicense /\ vendorPubPath = p.vendorPubPath
    /\ wrappedKey = p.wrappedKey /\ privKey = p.privKey /\ upKey = p.upKey
    /\ upEntries = p.upEntries /\ upErr = p.upErr /\ upLog = p.upLog
    /\ upWritten = p.upWritten /\ licRes = p.licRes

Resume(p) ==
    /\ upPc' = p.upPc /\ upArgs' = p.upArgs /\ upZip' = p.upZip
    /\ requireLicense' = p.requireLicense /\ vendorPubPath' = p.vendorPubPath
    /\ wrappedKey' = p.wrappedKey /\ privKey' = p.privKey /\ upKey' = p.upKey
    /\ upEntries' = p.upEntries /\ upErr' = p.upErr /\ upLog' = p.upLog
    /\ upWritten' = p.upWritten /\ licRes' = p.licRes

ZipA == FileIn(PkgDir, <<"a", "zip">>)
ZipB == FileIn(PkgDir, <<"b", "zip">>)
DecryptedDirB == Rel(<< <<"decrypted", "b">> >>)

\* The package of the named files under the Fernet key k, for the customer,
\* with the manifest and the vendor key when licensed.
Package(names, k, licensed) ==
    LET enc == [n \in {AddSuffixEnc(m) : m \in names} |->
                   EncryptAndSign(Plain(PartRank(n[1]) - 1), k)]
        keyed == Put(enc, WrappedKeyName, WrapFernetKey("customer", k))
    IN  IF licensed
        THEN Put(Put(keyed, ManifestName, PackedManifest), VendorPemName, PemPublic("vendor"))
        ELSE keyed

UnpackArgs(mode, zipPath, out) ==
    [mode |-> mode, zip |-> zipPath,
     work |-> IF mode = "lib" THEN LibWorkDir(zipPath) ELSE WorkDirDefault,
     out |-> out, priv |-> PrivFileOf("customer"), token |-> NoPath, vendorPub |-> NoPath]

TwoInit ==
    /\ \E namesA \in SUBSET InputNames, namesB \in SUBSET InputNames,
          licensed \in BOOLEAN, mode \in {"cmd", "lib"} :
          /\ namesA # {}
          /\ namesB # {}
          /\ fs = PutFile(PutFile(AllKeyFiles, PkgDir, <<"a", "zip">>,
                                  ArchiveOf(Package(namesA, 1, licensed))),
                          PkgDir, <<"b", "zip">>, ArchiveOf(Package(namesB, 2, FALSE)))
          /\ Runs(Started(UnpackArgs(mode, ZipA, DecryptedDir)))
          /\ parked = Started(UnpackArgs(mode, ZipB, DecryptedDirB))
    /\ clock = 0
    /\ env = Unset
    /\ issued = NoToken
    /\ altered = "none"
    /\ UnzipIdle
    /\ PackIdle

\* The second run is started when the first has ended.
Rerun ==
    /\ upPc \in {"exit0", "exit1", "panic"}
    /\ parked.upPc = "begin"
    /\ parked' = Current
    /\ Resume(parked)
    /\ UNCHANGED <<fs, unzipVars, packVars, clock, env, issued, altered>>

\* The scheduler takes the processor from one process and gives it to the
\* other.
Switch ==
    /\ parked.upPc \notin {"exit0", "exit1", "panic"}
    /\ parked' = Current
    /\ Resume(parked)
    /\ UNCHANGED <<fs, unzipVars, packVars, clock, env, issued, altered>>

SpecRerun == TwoInit /\ [][UnpackNext \/ Rerun]_vars

SpecConcurrent == TwoInit /\ [][UnpackNext \/ Switch]_vars

(***************************************************************************)
(* Claims on archive extraction.                                           *)
(***************************************************************************)
Range(q) == {q[i] : i \in 1..Len(q)}

WorkLoc == Resolve(dest)

\* Where the entry's name leads when it is followed from the working directory.
EntryTarget(e) == Walk(WorkLoc, e.name.segs)

StrictlyBelow(loc, dir) == IsPrefix(dir, loc) /\ loc # dir

\* C6: whatever the entry names, extraction creates and writes nothing outside
\* the working directory: every location outside it exists and holds what it
\* held before the extraction began.
C6_NoWriteOutsideWorkDir ==
    \A loc \in DOMAIN fs :
        IsPrefix(WorkLoc, loc) \/ (loc \in DOMAIN DecoyFs /\ fs[loc] = DecoyFs[loc])

\* C6 witness: an absolute name with a ".." segment has been handled after
\* another entry, without error, and a file of the archive is in the tree.
C6_Witness ==
    /\ zi = MaxEntries
    /\ zf.name.abs
    /\ DotDot \in Range(zf.name.segs)
    /\ unzipErr = ""
    /\ \E loc \in DOMAIN fs : fs[loc] = Plain(1)

Verified == licRes # NotRun

CurrentToken == ReadFile(fs, TokenFile)

\* The vendor public key file holds the RSA public key k.
VendorPubIs(k) ==
    ReadFileOk(fs, VendorPubFile) /\ ReadFile(fs, VendorPubFile) = PemPublic(k)

\* A five-field token signed by the vendor, unaltered, verified against the
\* vendor's public key.
ValidlySigned ==
    /\ issued # NoToken
    /\ altered = "none"
    /\ Len(issued.fields) = 5
    /\ issued.fields[5].signer = "vendor"
    /\ VendorPubIs("vendor")

\* expiry - now, in hours, now being FAKE_NOW's date when it is one.
RemainingHours ==
    issued.fields[1].day * 24 - (IF env.t = "date" THEN env.day * 24 ELSE clock)

Warned == "WARNING" \in Range(licRes.out)

\* C5: for a validly signed token and r = expiry - now, verification ends in the
\* expired error when r < 0, in the blocked error when 0 <= r <= 24h, in a
\* warning and success when 24h < r <= 7 days, in success without warning when
\* r > 7 days.
C5_ExpiryPolicy ==
    (Verified /\ ValidlySigned) =>
        LET r == RemainingHours
        IN  /\ r < 0 => licRes.err = "Token expired"
            /\ (0 <= r /\ r <= 24) => licRes.err = "Model access blocked"
            /\ (24 < r /\ r <= 7 * 24) => (licRes.err = "" /\ Warned)
            /\ r > 7 * 24 => (licRes.err = "" /\ ~Warned)

\* C5 witness: exactly 7 days remain, and the verification warned and succeeded.
C5_Witness ==
    /\ Verified
    /\ ValidlySigned
    /\ RemainingHours = 7 * 24
    /\ licRes.err = ""
    /\ Warned

\* The first four fields of the token file are not the ones that were signed.
FieldsChanged == SubSeq(CurrentToken.fields, 1, 4) # SubSeq(issued.fields, 1, 4)

\* The token's signature was made with a key other than the one matching the
\* public key it is verified with.
WrongSigner ==
    LET sig == CurrentToken.fields[Len(CurrentToken.fields)]
    IN  sig.t = "sig" /\ ~VendorPubIs(sig.signer)

\* C10: verification never succeeds for a token that has other than five
\* fields, whose first four fields were changed after signing, or that was
\* signed with a key not matching the vendor public key used.
C10_BadTokenNeverAccepted ==
    (Verified /\ issued # NoToken
        /\ (Len(CurrentToken.fields) # 5 \/ FieldsChanged \/ WrongSigner))
    => licRes.err # ""

\* C10 witness: the expiry of a vendor-signed token was changed, nothing else
\* is wrong, and verification ended in the signature error.
C10_Witness ==
    /\ Verified
    /\ issued # NoToken
    /\ altered = "field1"
    /\ Len(CurrentToken.fields) = 5
    /\ ~WrongSigner
    /\ licRes.err = "token signature invalid"

(***************************************************************************)
(* Claims on the unpacker (SpecUnpack).                                    *)
(***************************************************************************)
PastGate == upPc \in {"wrapped", "priv", "unwrap", "decrypt", "exit0", "panic"}
Ended == upPc \in {"exit0", "exit1", "panic"}
LaterSteps == {"read wrapped key", "load private key", "unwrap", "decrypt"}
Logged(step) == \E j \in 1..Len(upLog) : upLog[j] = step

\* The licence the caller holds passes the verification of section 4.6
\* against the vendor key the run resolved.
LicenseVerifies ==
    VerifyAndEnforceLicense(fs, vendorPubPath, upArgs.token, clock, env).err = ""

KeyUnwrapped ==
    /\ DecryptOAEPOk(privKey, wrappedKey)
    /\ DecodeKeysOk(wrappedKey.msg)
    /\ upKey = wrappedKey.msg.key

GateFailed ==
    \/ upErr \in {"license required: no token",
                  "license required: vendor public key not found"}
    \/ licRes # NotRun /\ licRes.err # ""

\* C1: while files are being decrypted, a plaintext file has been written
\* only if the licence, when one is required, verifies and the wrapped key
\* was unwrapped; a run that fails at a gate has written no file.
C1_NoPlaintextBeforeGates ==
    /\ (upPc = "decrypt" /\ upWritten # {}) =>
          /\ KeyUnwrapped
          /\ LicenseNeeded(upArgs.mode, requireLicense, upArgs.token, vendorPubPath)
                => LicenseVerifies
    /\ (upPc = "exit1" /\ (GateFailed \/ upErr = "Unwrap failed")) => upWritten = {}

\* The archive's manifest declares license_required, as the packager
\* writes it.
ManifestDeclares ==
    LET z == ReadFile(fs, upArgs.zip).entries
    IN  \E j \in 1..Len(z) :
           /\ z[j].name = Rel(<<ManifestName>>)
           /\ Contains(TextOf(z[j].data), LicenseRequiredTrue)

Signal ==
    \/ ManifestDeclares
    \/ upArgs.token # NoPath
    \/ upArgs.vendorPub # NoPath

\* The recipient private key unwraps the wrapped key of the archive.
WouldUnwrap ==
    LET z == ReadFile(fs, upArgs.zip).entries
    IN  /\ ReadRSAPrivateKeyOk(fs, upArgs.priv)
        /\ \E j \in 1..Len(z) :
              /\ z[j].name = Rel(<<WrappedKeyName>>)
              /\ DecryptOAEPOk(ReadFile(fs, upArgs.priv).key, z[j].data)

C3_GateFailureStopsPipeline ==
    (upArgs.mode = "cmd" /\ GateFailed) =>
        /\ upPc = "exit1"
        /\ \A step \in LaterSteps : ~Logged(step)
        /\ wrappedKey = Nothing
        /\ privKey = ""
        /\ upKey = 0
        /\ upWritten = {}

C3_Witness ==
    /\ upArgs.mode = "cmd"
    /\ licRes.err = "token signature invalid"
    /\ WouldUnwrap
    /\ upPc = "exit1"

(***************************************************************************)
(* Claims on the archive the packager leaves (SpecPack).                   *)
(***************************************************************************)
Packed == pkPc \in {"cleanup", "exit0"} /\ pkArgs.zip
Archive == ReadFile(fs, FileIn(pkArgs.out, ZipName)).entries

\* C7: no entry of the archive carries the plaintext of an input file.
C7_ArchiveHoldsNoPlaintext ==
    Packed => \A j \in 1..Len(Archive) :
                 Archive[j].data \notin {input0[n] : n \in DOMAIN input0}

ExpectedEntries ==
    LET base == [n \in {AddSuffixEnc(m) : m \in DOMAIN input0} |->
                    EncryptAndSign(input0[TrimSuffixEnc(n)], fernetKey)]
        keyed == Put(base, WrappedKeyName, WrapFernetKey(customerPub, fernetKey))
    IN  IF pkArgs.license
        THEN Put(Put(keyed, ManifestName, PackedManifest),
                 VendorPemName, ReadFile(fs, pkArgs.vendorPub))
        ELSE keyed

\* C8: the archive holds one <name>.enc per input file, one wrapped_key.bin,
\* manifest.json and vendor_public.pem exactly when -license was given, and
\* no other entry.
C8_ArchiveHoldsExactlyThePackage ==
    Packed =>
        /\ Len(Archive) = Cardinality(DOMAIN ExpectedEntries)
        /\ \A j \in 1..Len(Archive) :
              /\ Archive[j].name.segs[1] \in DOMAIN ExpectedEntries
              /\ Archive[j].data = ExpectedEntries[Archive[j].name.segs[1]]

(***************************************************************************)
(* Claim on packing and unpacking (SpecRound).                             *)
(***************************************************************************)
\* C4: unpacking the archive of a run of the packager ends well, having
\* written one file per input file, under its name and with its content,
\* and no other file.
C4_RoundTrip ==
    Ended =>
        /\ upPc = "exit0"
        /\ upWritten = DOMAIN input0
        /\ \A n \in DOMAIN input0 :
              /\ ReadFileOk(fs, FileIn(upArgs.out, n))
              /\ ReadFile(fs, FileIn(upArgs.out, n)) = input0[n]

(***************************************************************************)
(* Claims on issuing and verifying (SpecLicense).                          *)
(***************************************************************************)
\* What issue-token was given: the expiry, the company and the email.
GivenExpiry == issued.fields[1]
GivenCompany == SubSeq(issued.fields, 2, Len(issued.fields) - 3)
GivenEmail == <<issued.fields[Len(issued.fields) - 2]>>

IssuedByVendor ==
    /\ issued # NoToken
    /\ altered = "none"
    /\ issued.fields[Len(issued.fields)].signer = "vendor"
    /\ VendorPubIs("vendor")

\* C11: a token issued with the vendor key for an expiry more than 7 days
\* ahead, left as issued, is accepted under the vendor public key, and the
\* company, email and expiry displayed are the ones given to issue-token.
C11_IssuedTokenVerifies ==
    (Verified /\ IssuedByVendor /\ RemainingHours > WarnDays * HoursPerDay) =>
        /\ licRes.err = ""
        /\ licRes.info # NoInfo
        /\ <<licRes.info[1]>> = GivenCompany
        /\ <<licRes.info[2]>> = GivenEmail
        /\ licRes.info[3] = GivenExpiry

(***************************************************************************)
(* Claims on key unwrap and integrity (SpecUnpack), and on the key on disk *)
(* (SpecPack).                                                             *)
(***************************************************************************)
ArchiveEntries == ReadFile(fs, upArgs.zip).entries

\* The wrapped key of the archive was made for another key than the one in
\* the private key file given.
KeyMismatch ==
    /\ ReadRSAPrivateKeyOk(fs, upArgs.priv)
    /\ \E j \in 1..Len(ArchiveEntries) :
          /\ ArchiveEntries[j].name = Rel(<<WrappedKeyName>>)
          /\ ArchiveEntries[j].data.kind = "oaep"
          /\ ArchiveEntries[j].data.pub # ReadFile(fs, upArgs.priv).key

\* C12: with a private key that does not match the wrapped key, a run never
\* gets a Fernet key, never writes a file and never ends well; when it
\* reaches the unwrap it ends there with the unwrap error.
C12_WrongKeyFailsAtUnwrap ==
    KeyMismatch =>
        /\ upKey = 0
        /\ upWritten = {}
        /\ upPc \notin {"decrypt", "exit0", "panic"}
        /\ Logged("unwrap") => (upPc = "exit1" /\ upErr = "Unwrap failed")

C12_Witness ==
    /\ KeyMismatch
    /\ Logged("unwrap")
    /\ privKey = "customer"
    /\ wrappedKey.pub = "stranger"
    /\ upPc = "exit1"
    /\ upErr = "Unwrap failed"

\* The names n such that the archive's entry n.enc was altered.
AlteredNames ==
    {TrimSuffixEnc(ArchiveEntries[j].name.segs[1]) : j \in
        {i \in 1..Len(ArchiveEntries) :
            /\ HasSuffixEnc(ArchiveEntries[i].name.segs[1])
            /\ ArchiveEntries[i].data.kind = "fernet"
            /\ ~ArchiveEntries[i].data.intact}}

\* C13: no file is written for an altered entry nor for an entry listed
\* after it, a run with an altered entry never ends well, and the run that
\* fails in decryption stands at an altered entry.
C13_AlteredEntryStopsRun ==
    \A n \in AlteredNames :
        /\ n \notin upWritten
        /\ \A m \in upWritten : NameLess(AddSuffixEnc(m), AddSuffixEnc(n))
        /\ upPc # "exit0"
        /\ (upPc = "exit1" /\ upErr = "Decrypt failed") =>
              TrimSuffixEnc(Head(upEntries)) \in AlteredNames

C13_Witness ==
    /\ AlteredNames = {<<"a">>}
    /\ \E j \in 1..Len(ArchiveEntries) : ArchiveEntries[j].name = Rel(<< <<"b", "enc">> >>)
    /\ upPc = "exit1"
    /\ upErr = "Decrypt failed"
    /\ Head(upEntries) = <<"a", "enc">>
    /\ upWritten = {}

\* What lies on disk: the files, and the entries of the archives among them.
OnDisk ==
    {fs[x] : x \in DOMAIN fs} \cup
    UNION {{fs[x].entries[j].data : j \in 1..Len(fs[x].entries)} :
              x \in {y \in DOMAIN fs : fs[y].kind = "zip"}}

\* C14: at every step of a run of the packager, nothing on disk is the text
\* of the Fernet key, and the key is on disk only as wrapped for the
\* recipient public key.
C14_KeyOnlyWrapped ==
    \A c \in OnDisk :
        /\ c.kind # "keytext"
        /\ (c.kind = "oaep" /\ c.msg = EncodeKey(fernetKey)) => c.pub = customerPub

C14_Witness ==
    /\ pkPc = "exit0"
    /\ pkArgs.zip
    /\ WrapFernetKey(customerPub, fernetKey) \in OnDisk
    /\ ReadFileOk(fs, FileIn(pkArgs.out, WrappedKeyName))

(***************************************************************************)
(* Claims on the working directory (SpecUnpack, SpecRerun,                 *)
(* SpecConcurrent).                                                        *)
(***************************************************************************)
WorkDirGone(f, args) == \A x \in DOMAIN f : ~IsPrefix(Resolve(args.work), x)

\* C15: when a run has ended, well or not, its working directory is gone.
C15_WorkDirRemoved ==
    Ended => WorkDirGone(fs, upArgs)

\* The names of the files whose ciphertext the archive of process p holds.
ExpectedOf(p) ==
    LET z == ReadFile(fs, p.upArgs.zip).entries
    IN  {TrimSuffixEnc(z[j].name.segs[1]) :
            j \in {i \in 1..Len(z) : HasSuffixEnc(z[i].name.segs[1])}}

Licensed(p) ==
    LET z == ReadFile(fs, p.upArgs.zip).entries
    IN  \E j \in 1..Len(z) : z[j].name = Rel(<<ManifestName>>)

\* The result process p has when it runs alone: a package without manifest
\* is decrypted whole, a licensed one is refused for want of a token.
AloneResult(p) ==
    IF Licensed(p)
    THEN /\ p.upPc = "exit1"
         /\ p.upErr = "license required: no token"
         /\ p.upWritten = {}
    ELSE /\ p.upPc = "exit0"
         /\ p.upWritten = ExpectedOf(p)
         /\ \A n \in p.upWritten :
               /\ ReadFileOk(fs, FileIn(p.upArgs.out, n))
               /\ ReadFile(fs, FileIn(p.upArgs.out, n)) = Plain(PartRank(n[1]) - 1)

\* C16: the run on the second archive, made after the run on the first has
\* ended, decrypts only files of its own archive, asks for a licence and
\* resolves a vendor key only as its own archive says, and ends as it does
\* when run alone.
C16_EarlierRunsDoNotMatter ==
    (upArgs.zip = ZipB) =>
        /\ upWritten \subseteq ExpectedOf(Current)
        /\ requireLicense = Licensed(Current)
        /\ vendorPubPath = NoPath
        /\ Ended => AloneResult(Current)

\* C17: of two runs interleaved in any way, each ends with the result it has
\* when run alone.
C17_ConcurrentRunsDoNotInterfere ==
    \A p \in {Current, parked} :
        p.upPc \in {"exit0", "exit1", "panic"} => AloneResult(p)

(***************************************************************************)
(* Claims on the packager's errors and keys (SpecPack, SpecRepack) and on  *)
(* the last day of a licence (SpecLicense).                                *)
(***************************************************************************)
\* A file the present run of the packager wrote for its package.
WrittenByRun(name, c) ==
    \/ c.kind = "fernet" /\ fernetKey # 0 /\ c.key = fernetKey
    \/ c.kind = "oaep"
    \/ c.kind = "manifest"

ConfigurationErrors == {"Failed to read public key", "-license requires -vendor-pub"}

\* C18: a run of the packager that ended on a bad recipient key, or on
\* -license without -vendor-pub, has written no ciphertext, no wrapped key
\* and no manifest to the output directory.
C18_ConfigurationErrorsFirst ==
    (pkPc = "exit1" /\ pkErr \in ConfigurationErrors) =>
        \A n \in ReadDir(fs, Resolve(pkArgs.out)) :
            ~WrittenByRun(n, ReadFile(fs, FileIn(pkArgs.out, n)))

\* C19: a validly signed token is blocked only when less than 24 hours
\* remain; with 1 to 7 days remaining, 1 and 7 included, verification warns
\* and succeeds.
C19_BlockOnlyBelowOneDay ==
    (Verified /\ ValidlySigned) =>
        /\ licRes.err = "Model access blocked" => RemainingHours < BlockDays * HoursPerDay
        /\ (BlockDays * HoursPerDay <= RemainingHours
               /\ RemainingHours <= WarnDays * HoursPerDay) => (licRes.err = "" /\ Warned)

\* C19 as amended: a validly signed token is blocked exactly when between 0
\* and 24 hours remain, 24 included; with more than 1 day and at most 7 days
\* remaining, verification warns and succeeds.
C19_BlockUpToOneDay ==
    (Verified /\ ValidlySigned) =>
        /\ licRes.err = "Model access blocked" <=>
              (0 <= RemainingHours /\ RemainingHours <= BlockDays * HoursPerDay)
        /\ (BlockDays * HoursPerDay < RemainingHours
               /\ RemainingHours <= WarnDays * HoursPerDay) => (licRes.err = "" /\ Warned)

\* C19 witness: FAKE_NOW is the day before the expiry date, and the
\* verification ended in the block.
C19_Witness ==
    /\ Verified
    /\ ValidlySigned
    /\ env.t = "date"
    /\ env.day + 1 = issued.fields[1].day
    /\ licRes.err = "Model access blocked"

\* The Fernet key wrapped in the archive of the given output directory.
KeyOfArchive(dir) ==
    LET z == ReadFile(fs, FileIn(dir, ZipName)).entries
        j == CHOOSE i \in 1..Len(z) : z[i].name = Rel(<<WrappedKeyName>>)
    IN  z[j].data.msg.key

CiphertextKeys(dir) ==
    LET z == ReadFile(fs, FileIn(dir, ZipName)).entries
    IN  {z[j].data.key : j \in {i \in 1..Len(z) : z[i].data.kind = "fernet"}}

\* C20: every file of a package is encrypted under the one key wrapped in
\* it, and the second packaging operation does not use the key of the first.
C20_FreshKeyPerOperation ==
    (pkPc = "exit0" /\ pkArgs.out = OutDirB) =>
        /\ CiphertextKeys(OutDir) \subseteq {KeyOfArchive(OutDir)}
        /\ CiphertextKeys(OutDirB) \subseteq {KeyOfArchive(OutDirB)}
        /\ KeyOfArchive(OutDir) # KeyOfArchive(OutDirB)

(***************************************************************************)
(* Claim on the licence gate of SecurePackager.DecryptZip (SpecUnpack).    *)
(***************************************************************************)
\* The token file given holds a token signed with the vendor private key.
TokenSignedByVendor ==
    /\ ReadFileOk(fs, upArgs.token)
    /\ LET tok == ReadFile(fs, upArgs.token)
       IN  /\ tok.kind = "token"
           /\ tok.fields[Len(tok.fields)].t = "sig"
           /\ tok.fields[Len(tok.fields)].signer = "vendor"

\* C21: DecryptZip on an archive whose manifest declares license_required,
\* given a token file that holds no token signed by the vendor, writes no
\* file and does not end well.
C21_LibraryRefusesForeignToken ==
    (upArgs.mode = "lib" /\ ManifestDeclares /\ upArgs.token # NoPath
        /\ ~TokenSignedByVendor) =>
        /\ upWritten = {}
        /\ upPc # "exit0"

(***************************************************************************)
(* Specification SpecFakeNow: the same inputs are taken twice through      *)
(* issue-token, the packager and cmd/unpack, first with the environment    *)
(* the caller chose for FAKE_NOW and then, from the same files, without    *)
(* FAKE_NOW.  parked holds the inputs, and after the first pass its        *)
(* results.                                                                *)
(***************************************************************************)
FakeNows == {Unset, Text("tomorrow"), Date(0), Date(MaxDay)}
TokenExpiry == Date(4)

World == IF parked.kind = "world" THEN parked ELSE parked.world

PackResult == <<pkPc, pkErr, customerPub, fernetKey>>

WorldInit ==
    /\ \E names \in SUBSET InputNames, license \in BOOLEAN, cleanup \in BOOLEAN,
          signer \in VendorKeys, tokenPath \in {NoPath, TokenFile} :
          LET f1 == PutAll(MkdirAll(AllKeyFiles, Resolve(InDir)), InDir, names)
              f2 == PutFile(f1, Rel(KeysDir), CustomerPubName, PemPublic("customer"))
          IN  /\ fs = f2
              /\ pkArgs = [in |-> InDir, out |-> OutDir,
                           pub |-> FileIn(Rel(KeysDir), CustomerPubName),
                           zip |-> TRUE, cleanup |-> cleanup, license |-> license,
                           vendorPub |-> VendorPubFile]
              /\ input0 = FilesOf(f2, InDir)
              /\ env \in FakeNows
              /\ parked = [kind |-> "world", fs |-> f2, env |-> env, signer |-> signer,
                           token |-> tokenPath]
    /\ clock \in UnpackClocks
    /\ licRes = NotRun
    /\ issued = NoToken
    /\ altered = "none"
    /\ PackReady
    /\ UnpackIdle
    /\ UnzipIdle

\* issue-token, before the packager runs.
WorldIssue ==
    /\ pkPc = "start"
    /\ upPc = "idle"
    /\ IssueTokenRun(World.signer, <<TokenExpiry>>, <<Text("Acme")>>, <<Text("a@acme")>>)

\* unpack -zip out/encrypted_files.zip -priv keys/customer.pem -out decrypted
\* [-license-token keys/token.txt]
WorldUnpack ==
    /\ pkPc = "exit0"
    /\ upPc = "idle"
    /\ upArgs' = [UnpackArgs("cmd", FileIn(OutDir, ZipName), DecryptedDir)
                     EXCEPT !.token = World.token]
    /\ upPc' = "begin"
    /\ UNCHANGED <<fs, upZip, requireLicense, vendorPubPath, wrappedKey, privKey, upKey,
                   upEntries, upErr, upLog, upWritten, licRes>>
    /\ UnpackFrame

\* The files are put back as they were and the three tools run once more,
\* FAKE_NOW unset.
SecondWorld ==
    /\ parked.kind = "world"
    /\ upPc \in {"exit0", "exit1", "panic"}
    /\ parked' = [kind |-> "first", world |-> parked, fs |-> fs, run |-> Current,
                  pack |-> PackResult, issued |-> issued]
    /\ fs' = parked.fs
    /\ env' = Unset
    /\ issued' = NoToken
    /\ Resume([Started(<<>>) EXCEPT !.upPc = "idle"])
    /\ pkPc' = "start"
    /\ customerPub' = ""
    /\ fernetKey' = 0
    /\ pkEntries' = <<>>
    /\ pkErr' = ""
    /\ entropy' = 0
    /\ UNCHANGED <<pkArgs, input0, clock, altered, unzipVars>>

\* The packager runs when the token is issued.
WorldPack == issued # NoToken /\ PackNext

WorldNext ==
    \/ WorldIssue
    \/ WorldPack
    \/ WorldUnpack
    \/ UnpackNext
    \/ SecondWorld

SpecFakeNow == WorldInit /\ [][WorldNext]_vars

(***************************************************************************)
(* Claim on FAKE_NOW (SpecFakeNow).                                        *)
(***************************************************************************)
\* The errors of verifyAndEnforceLicense up to the signature check.
SignatureErrors ==
    {"error reading vendor public key", "invalid vendor public key PEM",
     "error parsing vendor public key", "vendor public key is not RSA",
     "error reading license token", "invalid token b64", "invalid token format",
     "invalid signature b64", "token signature invalid"}

SignatureVerdict(r) ==
    IF r = NotRun THEN "not run"
    ELSE IF r.err \in SignatureErrors THEN r.err ELSE "signature valid"

GatePassed(p) == p.upPc \in {"wrapped", "priv", "unwrap", "decrypt", "exit0", "panic"}
                    \/ \E j \in 1..Len(p.upLog) : p.upLog[j] = "read wrapped key"

BothWorldsEnded == parked.kind = "first" /\ Ended

\* C22: the pass with FAKE_NOW and the pass without it issue the same token,
\* leave the same package, extract the same files and reach the same verdict
\* on the token's signature; when the licence gate lets both through, they
\* unwrap the same key, write the same files and end alike, and when it
\* lets neither through they differ in the licence error alone;
\* a FAKE_NOW that is unset or no date changes nothing at all, and without
\* FAKE_NOW the token is expired exactly when the clock is past its expiry.
C22_FakeNowOnlyMovesReferenceTime ==
    BothWorldsEnded =>
        LET first == parked.run
        IN  /\ issued = parked.issued
            /\ PackResult = parked.pack
            /\ FilesOf(fs, OutDir) = FilesOf(parked.fs, OutDir)
            /\ FilesOf(fs, WorkDirDefault) = FilesOf(parked.fs, WorkDirDefault)
            /\ requireLicense = first.requireLicense
            /\ vendorPubPath = first.vendorPubPath
            /\ SignatureVerdict(licRes) = SignatureVerdict(first.licRes)
            /\ licRes.info = first.licRes.info
            /\ (GatePassed(Current) /\ GatePassed(first)) =>
                  /\ Current = [first EXCEPT !.licRes = licRes]
                  /\ FilesOf(fs, DecryptedDir) = FilesOf(parked.fs, DecryptedDir)
            /\ (~GatePassed(Current) /\ ~GatePassed(first)) =>
                  /\ Current = [first EXCEPT !.licRes = licRes, !.upErr = upErr]
                  /\ upWritten = {}
            /\ ~ParseDateOk(World.env) => (Current = first /\ fs = parked.fs)
            /\ SignatureVerdict(licRes) = "signature valid" =>
                  ((licRes.err = "Token expired") <=> (clock > ParseDate(TokenExpiry)))

\* C22 witness: with FAKE_NOW past the expiry the first pass ended on the
\* expired token, and the pass without FAKE_NOW decrypted the package.
C22_Witness ==
    /\ BothWorldsEnded
    /\ World.env = Date(MaxDay)
    /\ parked.run.licRes.err = "Token expired"
    /\ parked.run.upWritten = {}
    /\ licRes.err = ""
    /\ upPc = "exit0"
    /\ upWritten # {}

(***************************************************************************)
(* Claim on the order of check and write in unzip (SpecUnzip).             *)
(***************************************************************************)
\* C23: when extraction has failed on an entry that does not pass the path
\* check, no file of the archive lies in the file tree.
C23_IllegalEntryNothingWritten ==
    unzipErr = "illegal file path" =>
        \A loc \in DOMAIN fs : fs[loc] \notin {e.data : e \in ZipEntries}

(***************************************************************************)
(* Claim on a wrapped key that holds no key (SpecUnpack).                  *)
(***************************************************************************)
\* The wrapped key opened under the recipient key, and what it held is not
\* the text of a Fernet key.
MalformedKey ==
    /\ Logged("unwrap")
    /\ DecryptOAEPOk(privKey, wrappedKey)
    /\ ~DecodeKeysOk(wrappedKey.msg)

\* C24: the run that unwrapped something that is no key has ended with the
\* error 'Unwrap failed', and has written no file.
C24_MalformedKeyIsAnError ==
    MalformedKey =>
        /\ upPc = "exit1"
        /\ upErr = "Unwrap failed"
        /\ upWritten = {}

(***************************************************************************)
(* Claim on the output of a run that fails in decryption (SpecUnpack).     *)
(***************************************************************************)
\* C25: a run that ended on a ciphertext it could not decrypt has written no
\* file, and the output directory holds no plaintext.
C25_FailedRunLeavesNoPlaintext ==
    (upPc = "exit1" /\ upErr = "Decrypt failed") =>
        /\ upWritten = {}
        /\ \A n \in ReadDir(fs, Resolve(upArgs.out)) :
              ReadFile(fs, FileIn(upArgs.out, n)).kind # "plain"

(***************************************************************************)
(* Specification SpecPackBlocked: a run of the packager into an output     *)
(* directory where a directory may lie under the name of a ciphertext, so  *)
(* that os.WriteFile fails on it.                                          *)
(***************************************************************************)
BlockedInit ==
    /\ \E names \in SUBSET InputNames, blocked \in SUBSET InputNames,
          zip \in BOOLEAN, cleanup \in BOOLEAN, license \in BOOLEAN :
          LET f1 == PutAll(MkdirAll(AllKeyFiles, Resolve(InDir)), InDir, names)
              f2 == PutFile(f1, Rel(KeysDir), CustomerPubName, PemPublic("customer"))
              f3 == IF blocked = {} THEN f2
                    ELSE MkdirAll(f2, Resolve(FileIn(OutDir,
                                     AddSuffixEnc(CHOOSE n \in blocked : TRUE))))
          IN  /\ blocked \subseteq names
              /\ Cardinality(blocked) <= 1
              /\ fs = f3
              /\ pkArgs = [in |-> InDir, out |-> OutDir,
                           pub |-> FileIn(Rel(KeysDir), CustomerPubName),
                           zip |-> zip, cleanup |-> cleanup, license |-> license,
                           vendorPub |-> VendorPubFile]
              /\ input0 = FilesOf(f3, InDir)
    /\ PackReady
    /\ UnzipIdle
    /\ LicenseIdle
    /\ UnpackIdle
    /\ OneProcess

SpecPackBlocked == BlockedInit /\ [][PackNext]_vars

(***************************************************************************)
(* Claim on a run of the packager that fails while encrypting              *)
(* (SpecPackBlocked).                                                      *)
(***************************************************************************)
\* C26: a run that ended in 'Encryption failed' has left no ciphertext, no
\* wrapped key and no archive of its own in the output directory.
C26_FailedPackLeavesNothing ==
    (pkPc = "exit1" /\ pkErr = "Encryption failed") =>
        \A n \in DOMAIN FilesOf(fs, pkArgs.out) :
            /\ ~WrittenByRun(n, FilesOf(fs, pkArgs.out)[n])
            /\ FilesOf(fs, pkArgs.out)[n].kind # "zip"

(***************************************************************************)
(* Claim on the cleanup of the packager (SpecPack).                        *)
(***************************************************************************)
\* The names under which the present run writes into the output directory.
NamesOfRun ==
    {AddSuffixEnc(n) : n \in DOMAIN input0} \cup {WrappedKeyName, ZipName} \cup
    (IF pkArgs.license THEN {ManifestName, VendorPemName} ELSE {})

CleanedUp == pkPc = "exit0" /\ pkArgs.zip /\ pkArgs.cleanup

\* C27: after a run with -zip and -cleanup the output directory holds
\* encrypted_files.zip and no file under the name of a generated artifact,
\* and every file the run found there and did not write itself (the archive
\* lists the directory as the run found and filled it) is there still, with
\* its content.
C27_CleanupKeepsUserFiles ==
    CleanedUp =>
        /\ ReadFileOk(fs, FileIn(pkArgs.out, ZipName))
        /\ \A n \in DOMAIN FilesOf(fs, pkArgs.out) : ~IsGenerated(n)
        /\ \A j \in 1..Len(Archive) :
              LET n == Archive[j].name.segs[1]
              IN  n \notin NamesOfRun =>
                     /\ ReadFileOk(fs, FileIn(pkArgs.out, n))
                     /\ ReadFile(fs, FileIn(pkArgs.out, n)) = Archive[j].data

(***************************************************************************)
(* Claim on what makes a licence required when the caller gives no path    *)
(* (SpecUnpack).                                                           *)
(***************************************************************************)
\* The manifest of the archive, read as JSON, gives license_required the
\* value true: white space between the colon and the value does not matter.
DeclaresTrue(text) ==
    \/ Contains(text, <<"\"license_required\":", " ", "true">>)
    \/ Contains(text, <<"\"license_required\":", "true">>)

ManifestDeclaresTrue ==
    \E j \in 1..Len(ArchiveEntries) :
        /\ ArchiveEntries[j].name = Rel(<<ManifestName>>)
        /\ DeclaresTrue(TextOf(ArchiveEntries[j].data))

NoPathGiven == upArgs.token = NoPath /\ upArgs.vendorPub = NoPath

LicenseDemanded ==
    upErr \in {"license required: no token", "license required: vendor public key not found"}

\* C28: when neither a token path nor a vendor key path is given, a run on an
\* archive whose manifest declares license_required true does not get past
\* the licence gate, and a run on any other archive meets no licence check:
\* no licence is demanded and none is verified.
C28_ManifestAloneDecides ==
    NoPathGiven =>
        /\ ManifestDeclaresTrue => ~PastGate
        /\ ~ManifestDeclaresTrue => (~LicenseDemanded /\ licRes = NotRun)

(***************************************************************************)
(* Claim on the vendor key the licence is verified with (SpecUnpack).      *)
(***************************************************************************)
EmbeddedVendorPub == FileIn(upArgs.work, VendorPemName)

\* The archive holds a vendor_public.pem that its manifest refers to.
ArchiveEmbedsKey ==
    /\ \E j \in 1..Len(ArchiveEntries) : ArchiveEntries[j].name = Rel(<<VendorPemName>>)
    /\ \E j \in 1..Len(ArchiveEntries) :
          /\ ArchiveEntries[j].name = Rel(<<ManifestName>>)
          /\ Contains(TextOf(ArchiveEntries[j].data), VendorPublicPem)

\* C29: in cmd/unpack, a licence that was verified was verified with the key
\* at the path the caller gave, whatever key the archive embeds, and its
\* verdict is the verdict under that key; it was verified with the key of
\* the archive only when the caller gave no path.
C29_GivenVendorKeyWins ==
    (upArgs.mode = "cmd" /\ licRes # NotRun) =>
        /\ upArgs.vendorPub # NoPath =>
              /\ vendorPubPath = upArgs.vendorPub
              /\ licRes = VerifyAndEnforceLicense(fs, upArgs.vendorPub, upArgs.token,
                                                  clock, env)
        /\ vendorPubPath = EmbeddedVendorPub => upArgs.vendorPub = NoPath

\* C29 witness: the archive embeds the forger's key and the token is signed
\* by the forger; the caller gave the path of the vendor's key, and the
\* licence was refused.
C29_Witness ==
    /\ upArgs.mode = "cmd"
    /\ upArgs.vendorPub = VendorPubFile
    /\ ArchiveEmbedsKey
    /\ ReadFileOk(fs, EmbeddedVendorPub)
    /\ ReadFile(fs, EmbeddedVendorPub) = PemPublic("forger")
    /\ ReadFileOk(fs, upArgs.token)
    /\ VerifyAndEnforceLicense(fs, EmbeddedVendorPub, upArgs.token, clock, env).err = ""
    /\ licRes.err = "token signature invalid"
    /\ upPc = "exit1"

(***************************************************************************)
(* Claim on the order of the steps of licence verification (SpecLicense).  *)
(***************************************************************************)
\* The last field of the token file is a signature, made with the private
\* key of the RSA public key in the vendor key file, over the fields before
\* it.
TokenSignatureVerifies ==
    /\ ReadFileOk(fs, VendorPubFile)
    /\ ReadFile(fs, VendorPubFile).kind = "pem"
    /\ ReadFile(fs, VendorPubFile).type = "public"
    /\ ReadFile(fs, VendorPubFile).alg = "rsa"
    /\ ReadFileOk(fs, TokenFile)
    /\ LET tok == ReadFile(fs, TokenFile)
           n == Len(tok.fields)
       IN  /\ tok.kind = "token"
           /\ tok.b64
           /\ n >= 1
           /\ tok.fields[n].t = "sig"
           /\ tok.fields[n].signer = ReadFile(fs, VendorPubFile).key
           /\ tok.fields[n].payload = SubSeq(tok.fields, 1, n - 1)

\* C30: a verification of a token whose signature does not verify ended in
\* one of the errors up to the signature check, having displayed nothing:
\* no licence information, no expiry verdict, no warning.
C30_SignatureBeforeExpiry ==
    (Verified /\ ~TokenSignatureVerifies) =>
        /\ licRes.err \in SignatureErrors
        /\ licRes.out = <<>>
        /\ licRes.info = NoInfo

\* C30 witness: the expiry field of a token was changed to a date that lies
\* before the reference time, and the verification ended on the signature.
C30_Witness ==
    /\ Verified
    /\ altered = "field1"
    /\ VendorPubIs("vendor")
    /\ CurrentToken.fields[1].t = "date"
    /\ CurrentToken.fields[1].day * HoursPerDay < ReferenceTime(clock, env)
    /\ licRes.err = "token signature invalid"
    /\ licRes.out = <<>>

=============================================================================
